---- MODULE Spec2Model ----
(***************************************************************************)
(* A model of the numerical visualization core of bayesian-playground:     *)
(* the seeded linear-congruential generator, the synthetic dataset, the    *)
(* joint log-posterior, the Metropolis-Hastings sampler and its React      *)
(* component, the contour grid, the Beta-Binomial updater and the          *)
(* Normal-Normal conjugate update.                                         *)
(*                                                                         *)
(* Numbers.  A JavaScript number x is held as the integer round(x * Scale) *)
(* (fixed point, four decimals), every arithmetic operation rounds its     *)
(* result to the nearest representable value as IEEE-754 does, and the     *)
(* three special values -Infinity, +Infinity and NaN are kept with their   *)
(* IEEE rules (a result beyond the finite range overflows to an infinity,  *)
(* x/0 is an infinity, inf-inf and 0*inf are NaN, every comparison with    *)
(* NaN is false).  The generator state is the exact signed 32-bit integer. *)
(* The Normal-Normal update is computed in exact IEEE 754 binary64.        *)
(***************************************************************************)
EXTENDS Integers, Sequences, FiniteSets, TLC

(***************************************************************************)
(* Fixed-point numbers with IEEE special values                            *)
(***************************************************************************)
Scale == 10^4
Huge == 10^9                  \* largest finite magnitude (100000.0)
PosInf == Huge + 1
NegInf == -(Huge + 1)
NaN == Huge + 2

IsNaN(v) == v = NaN
isFinite(v) == v >= -Huge /\ v <= Huge

Abs(x) == IF x < 0 THEN -x ELSE x
Sgn(x) == IF x < 0 THEN -1 ELSE IF x > 0 THEN 1 ELSE 0

\* n / d rounded to the nearest integer, for n >= 0 and d > 0
RoundDiv(n, d) == (n \div d) + (IF 2 * (n % d) >= d THEN 1 ELSE 0)

\* n / d rounded to the nearest integer, for any n and d > 0
RoundDivS(n, d) == IF n < 0 THEN -RoundDiv(-n, d) ELSE RoundDiv(n, d)

\* sum of two magnitudes, overflowing to +Infinity
AddMag(x, y) == IF x > Huge \/ y > Huge \/ x + y > Huge THEN PosInf ELSE x + y

\* product of two finite magnitudes, overflowing to +Infinity
MulMag(x, y) ==
    LET xh == x \div Scale  xl == x % Scale
        yh == y \div Scale  yl == y % Scale
    IN  IF xh # 0 /\ yh > ((Huge \div Scale) \div xh) THEN PosInf
        ELSE AddMag(AddMag(xh * yh * Scale, xh * yl),
                    AddMag(xl * yh, RoundDiv(xl * yl, Scale)))

\* quotient of two finite magnitudes (y > 0), overflowing to +Infinity
DivMag(x, y) ==
    LET q == x \div y
        r == x % y
        K == IF y <= 2 * 10^5 THEN 1
             ELSE IF y <= 2 * 10^6 THEN 10
             ELSE IF y <= 2 * 10^7 THEN 100
             ELSE IF y <= 2 * 10^8 THEN 1000 ELSE 10^4
    IN  IF q > Huge \div Scale THEN PosInf
        ELSE AddMag(q * Scale, RoundDiv((r \div K) * Scale, y \div K))

WithSign(s, m) == IF m > Huge THEN (IF s < 0 THEN NegInf ELSE PosInf) ELSE s * m

\* a + b
FAdd(a, b) ==
    IF IsNaN(a) \/ IsNaN(b) THEN NaN
    ELSE IF a = PosInf THEN (IF b = NegInf THEN NaN ELSE PosInf)
    ELSE IF a = NegInf THEN (IF b = PosInf THEN NaN ELSE NegInf)
    ELSE IF b = PosInf \/ b = NegInf THEN b
    ELSE IF a + b > Huge THEN PosInf
    ELSE IF a + b < -Huge THEN NegInf
    ELSE a + b

\* -a
FNeg(a) == IF IsNaN(a) THEN NaN ELSE -a

\* a - b
FSub(a, b) == FAdd(a, FNeg(b))

\* a * b
FMul(a, b) ==
    IF IsNaN(a) \/ IsNaN(b) THEN NaN
    ELSE IF ~isFinite(a) \/ ~isFinite(b)
         THEN (IF a = 0 \/ b = 0 THEN NaN
               ELSE IF Sgn(a) * Sgn(b) < 0 THEN NegInf ELSE PosInf)
    ELSE WithSign(Sgn(a) * Sgn(b), MulMag(Abs(a), Abs(b)))

\* a / b
FDiv(a, b) ==
    IF IsNaN(a) \/ IsNaN(b) THEN NaN
    ELSE IF ~isFinite(a)
         THEN (IF ~isFinite(b) THEN NaN
               ELSE IF Sgn(a) * (IF b < 0 THEN -1 ELSE 1) < 0 THEN NegInf ELSE PosInf)
    ELSE IF ~isFinite(b) THEN 0
    ELSE IF b = 0
         THEN (IF a = 0 THEN NaN ELSE IF a < 0 THEN NegInf ELSE PosInf)
    ELSE WithSign(Sgn(a) * Sgn(b), DivMag(Abs(a), Abs(b)))

\* a < b and a <= b: false whenever an operand is NaN
FLt(a, b) == ~IsNaN(a) /\ ~IsNaN(b) /\ a < b
FLe(a, b) == ~IsNaN(a) /\ ~IsNaN(b) /\ a <= b

\* Math.max(a, b): NaN if either operand is NaN
FMax(a, b) == IF IsNaN(a) \/ IsNaN(b) THEN NaN ELSE IF a >= b THEN a ELSE b

(***************************************************************************)
(* Math.log, Math.exp, Math.sqrt, Math.cos, Math.sin                       *)
(***************************************************************************)
Ln2Micro == 693147            \* ln 2, in millionths

\* <<m, k>> with m in [Scale, 2*Scale) and x = m * 2^k (x > 0)
RECURSIVE LnNorm(_, _)
LnNorm(m, k) ==
    IF m >= 2 * Scale THEN LnNorm(m \div 2, k + 1)
    ELSE IF m < Scale THEN LnNorm(2 * m, k - 1)
    ELSE <<m, k>>

\* ln of a finite x > 0: ln(m) = 2 atanh((m-1)/(m+1)), plus k ln 2
LnPos(x) ==
    LET n  == LnNorm(x, 0)
        m  == n[1]
        t  == RoundDiv((m - Scale) * 10^5, m + Scale)
        t2 == RoundDiv(t * t, 10^5)
        p4 == 11111
        p3 == 14286 + RoundDiv(t2 * p4, 10^5)
        p2 == 20000 + RoundDiv(t2 * p3, 10^5)
        p1 == 33333 + RoundDiv(t2 * p2, 10^5)
        c  == RoundDiv(t2 * p1, 10^5)
        lnm == 2 * (t + RoundDiv(t * c, 10^5))
    IN  RoundDivS(lnm * 10 + n[2] * Ln2Micro, 100)

\* Math.log(x)
Log(x) ==
    IF IsNaN(x) \/ x < 0 THEN NaN
    ELSE IF x = 0 THEN NegInf
    ELSE IF x = PosInf THEN PosInf
    ELSE LnPos(x)

\* Math.exp(x)
Exp(x) ==
    IF IsNaN(x) THEN NaN
    ELSE IF x = PosInf \/ x > 115129 THEN PosInf
    ELSE IF x < -110000 THEN 0
    ELSE LET k  == (x * 100 + 346574) \div Ln2Micro
             r  == RoundDivS(x * 100 - k * Ln2Micro, 100)
             f6 == 10^5 + RoundDivS(r * 10^5, 6 * Scale)
             f5 == 10^5 + RoundDivS(r * f6, 5 * Scale)
             f4 == 10^5 + RoundDivS(r * f5, 4 * Scale)
             f3 == 10^5 + RoundDivS(r * f4, 3 * Scale)
             f2 == 10^5 + RoundDivS(r * f3, 2 * Scale)
             f  == 10^5 + RoundDivS(r * f2, Scale)
         IN  IF k >= 14 THEN RoundDiv(f, 10) * 2^k
             ELSE IF k >= 0 THEN RoundDiv(f * 2^k, 10)
             ELSE RoundDiv(f, 10 * 2^(-k))

\* floor(c*c / Scale) and (c*c) % Scale without overflow (0 <= c < 4200000)
SqHi(c) == (c \div 100) * (c \div 100) + (200 * (c \div 100) * (c % 100) + (c % 100) * (c % 100)) \div Scale
SqLo(c) == (200 * (c \div 100) * (c % 100) + (c % 100) * (c % 100)) % Scale

\* the largest r with r*r <= x*Scale, found bit by bit
RECURSIVE SqrtBits(_, _, _)
SqrtBits(x, r, bit) ==
    IF bit = 0 THEN r
    ELSE LET c == r + bit
         IN  IF SqHi(c) < x \/ (SqHi(c) = x /\ SqLo(c) = 0)
             THEN SqrtBits(x, c, bit \div 2)
             ELSE SqrtBits(x, r, bit \div 2)

\* Math.sqrt(x), correctly rounded
Sqrt(x) ==
    IF IsNaN(x) \/ x < 0 THEN NaN
    ELSE IF x = PosInf THEN PosInf
    ELSE LET r == SqrtBits(x, 0, 2^21)
             d == (x - SqHi(r)) * Scale - SqLo(r)
         IN  IF d > r THEN r + 1 ELSE r

HalfPi == 15708               \* Math.PI / 2
TwoPi == 62832                \* 2 * Math.PI

\* 10^5 * cos(a) and 10^5 * sin(a) for 0 <= a <= pi/4 (Taylor series)
CosK(a) ==
    LET a2 == RoundDiv(a * a, Scale)
        f4 == 10^5 - RoundDiv(a2 * 10^5, 56 * Scale)
        f3 == 10^5 - RoundDiv(a2 * f4, 30 * Scale)
        f2 == 10^5 - RoundDiv(a2 * f3, 12 * Scale)
    IN  10^5 - RoundDiv(a2 * f2, 2 * Scale)
SinK(a) ==
    LET a2 == RoundDiv(a * a, Scale)
        g4 == 10^5 - RoundDiv(a2 * 10^5, 72 * Scale)
        g3 == 10^5 - RoundDiv(a2 * g4, 42 * Scale)
        g2 == 10^5 - RoundDiv(a2 * g3, 20 * Scale)
        g1 == 10^5 - RoundDiv(a2 * g2, 6 * Scale)
    IN  RoundDiv(a * g1, Scale)

\* cos and sin of an angle a in the first quadrant, 0 <= a < pi/2
CosQ(a) == RoundDiv(IF 2 * a > HalfPi THEN SinK(HalfPi - a) ELSE CosK(a), 10)
SinQ(a) == RoundDiv(IF 2 * a > HalfPi THEN CosK(HalfPi - a) ELSE SinK(a), 10)

\* Math.cos(x)
Cos(x) ==
    IF ~isFinite(x) THEN NaN
    ELSE LET q == (Abs(x) \div HalfPi) % 4
             a == Abs(x) % HalfPi
         IN  CASE q = 0 -> CosQ(a)
               [] q = 1 -> -SinQ(a)
               [] q = 2 -> -CosQ(a)
               [] q = 3 -> SinQ(a)

\* Math.sin(x)
Sin(x) ==
    IF ~isFinite(x) THEN NaN
    ELSE LET q == (Abs(x) \div HalfPi) % 4
             a == Abs(x) % HalfPi
             v == CASE q = 0 -> SinQ(a)
                    [] q = 1 -> CosQ(a)
                    [] q = 2 -> -SinQ(a)
                    [] q = 3 -> -CosQ(a)
         IN  IF x < 0 THEN -v ELSE v

(***************************************************************************)
(* The linear-congruential generator.  Its state s is a signed 32-bit      *)
(* integer (the result of  & 0xffffffff ); the product s * 1664525 is      *)
(* formed exactly, in 16-bit limbs, since it does not fit 32 bits.         *)
(***************************************************************************)
LcgMulHi == 25                \* 1664525 = 25 * 65536 + 26125
LcgMulLo == 26125
LcgIncHi == 15470             \* 1013904223 = 15470 * 65536 + 62303
LcgIncLo == 62303

\* s >>> 0 as two 16-bit limbs, high and low
Hi16(s) == (s \div 65536) % 65536
Lo16(s) == s % 65536

\* x & 0xffffffff for the number with limbs (hi, lo): ToInt32
ToInt32(hi, lo) ==
    IF hi >= 32768 THEN (hi - 65536) * 65536 + lo ELSE hi * 65536 + lo

\* (s * 1664525 + 1013904223) & 0xffffffff
LcgStep(s) ==
    LET lo == Lo16(s) * LcgMulLo + LcgIncLo
        hi == Hi16(s) * LcgMulLo + Lo16(s) * LcgMulHi + LcgIncHi + lo \div 65536
    IN  ToInt32(hi % 65536, lo % 65536)

\* s / 4294967296, the state read as signed
UnitSigned(s) == ((s \div 65536) * Scale) \div 65536

\* (s >>> 0) / 4294967296 for the generator state s
Unit(s) == (Hi16(s) * Scale + (Lo16(s) * Scale) \div 65536) \div 65536

\* Math.log(u + 1e-12) for u = (s >>> 0) / 4294967296, from the exact state
LogUnitEps(s) ==
    LET hi == Hi16(s)
        lo == Lo16(s)
        ln2x32 == RoundDiv(32 * Ln2Micro, 100)
        v  == IF hi = 0 /\ lo < 2048
              THEN LnPos(lo * 10^6 + 4295) - LnPos(100 * Scale) - ln2x32
              ELSE IF hi < 32768
              THEN LnPos(hi * 65536 + lo) + LnPos(Scale * Scale) - ln2x32
              ELSE LnPos(hi * 32768 + lo \div 2) + LnPos(2 * Scale * Scale) - ln2x32
    IN  IF v > 0 THEN 0 ELSE v

(***************************************************************************)
(* State                                                                   *)
(***************************************************************************)
VARIABLES
    activeChapter,            \* App: the chapter on screen
    DATA, SUM_LOG_X, SUM_LOG_X_SQ,   \* module-level dataset and its statistics
    samples, path, running, numSamples, stepSize, seed, acceptance,
                              \* MCMCSamplingVisualizer: its useState cells
    grid,                     \* MCMCSamplingVisualizer: useMemo(buildContourGrid)
    rng,                      \* the s of the generator the last run created
    chainLog,                 \* history: the result of every mhStep of the last run
    priorPreset, observations, animKey,
                              \* BetaBinomialUpdater: its useState cells
    priorMu, priorSigma, dataMu, dataSigma,
                              \* App: the Normal-Normal parameters
    chain,                    \* a Metropolis-Hastings chain stepped on its own
    gens,                     \* two generators stepped on their own
    logGrid,                  \* the grid of log densities before it is normalised
    calc,                     \* a density or a curve evaluated on its own
    trace                     \* MCMCTraceViewer: its useState cells and its timer

dataVars == <<DATA, SUM_LOG_X, SUM_LOG_X_SQ>>
mcmcVars == <<samples, path, running, numSamples, stepSize, seed, acceptance,
              grid, rng, chainLog>>
betaVars == <<priorPreset, observations, animKey>>
normalVars == <<priorMu, priorSigma, dataMu, dataSigma>>
vars == <<activeChapter, dataVars, mcmcVars, betaVars, normalVars, chain, gens, logGrid,
          calc, trace>>

(***************************************************************************)
(* The synthetic dataset                                                   *)
(***************************************************************************)
SEED_DATA == 42
N_OBS == 80
TRUE_MU == 11000              \* 1.1
TRUE_SIG == 6000              \* 0.6

\* the closure u of genData: the state s after one more call
GenDataU(s) ==
    LET lo == Lo16(s) * LcgMulLo + LcgIncLo
        hi == Hi16(s) * LcgMulLo + Lo16(s) * LcgMulHi + LcgIncHi + lo \div 65536
    IN  ToInt32(hi % 65536, lo % 65536)

\* A loop is run by halving the iterations that remain: the state st of its
\* locals carries the counter i, and the first half has run before the second
\* starts, so the iterations happen in the program's order.

\* one pass of the Box-Muller loop (i += 2): st = [i, s, normals, logOf],
\* logOf the generator states whose draw u1 went into Math.log
BoxMuller(st) ==
    LET s1 == GenDataU(st.s)
        s2 == GenDataU(s1)
        rad == Sqrt(FMul(-2 * Scale, LogUnitEps(s1)))
        ang == FMul(TwoPi, Unit(s2))
        z0 == FMul(rad, Cos(ang))
        z1 == FMul(rad, Sin(ang))
    IN  [i |-> st.i + 2, s |-> s2, normals |-> st.normals \o <<z0, z1>>,
         logOf |-> Append(st.logOf, s1)]

\* the passes of the Box-Muller loop while i < n
RECURSIVE GenNormals(_, _)
GenNormals(st, n) ==
    IF st.i >= n THEN st
    ELSE IF st.i + 2 >= n THEN BoxMuller(st)
    ELSE GenNormals(GenNormals(st, st.i + 2 * ((n - st.i + 3) \div 4)), n)

genData(sd, n, mu, sig) ==
    LET normals == GenNormals([i |-> 0, s |-> sd, normals |-> <<>>, logOf |-> <<>>], n).normals
    IN  [k \in 1..n |-> Exp(FAdd(mu, FMul(sig, normals[k])))]

\* DATA.reduce((s, x) => s + Math.log(x), 0): st = [i, s] before element i+1
RECURSIVE SumLog(_, _, _)
SumLog(data, st, n) ==
    IF st.i >= n THEN st
    ELSE IF st.i + 1 = n THEN [i |-> n, s |-> FAdd(st.s, Log(data[n]))]
    ELSE SumLog(data, SumLog(data, st, (st.i + n) \div 2), n)

\* DATA.reduce((s, x) => s + Math.log(x) ** 2, 0): st = [i, s]
RECURSIVE SumLogSq(_, _, _)
SumLogSq(data, st, n) ==
    IF st.i >= n THEN st
    ELSE IF st.i + 1 = n
         THEN [i |-> n, s |-> FAdd(st.s, FMul(Log(data[n]), Log(data[n])))]
    ELSE SumLogSq(data, SumLogSq(data, st, (st.i + n) \div 2), n)

(***************************************************************************)
(* Log posterior, Metropolis-Hastings step, generator                      *)
(***************************************************************************)
\* TARGET_LOG_PROB returning early for sig < 0 only
TARGET_LOG_PROBNegativeOnly(mu, sig) ==
    IF FLt(sig, 0) THEN NegInf
    ELSE LET sig2 == FMul(sig, sig)
             quad == FAdd(FSub(SUM_LOG_X_SQ, FMul(FMul(2 * Scale, mu), SUM_LOG_X)),
                          FMul(FMul(N_OBS * Scale, mu), mu))
             logLik == FSub(FMul(-N_OBS * Scale, Log(sig)),
                            FMul(FDiv(Scale, FMul(2 * Scale, sig2)), quad))
             logPriorMu == FMul(FMul(-(Scale \div 2), mu), mu)
             logPriorSig == FMul(FMul(-(Scale \div 2), sig), sig)
         IN  FAdd(FAdd(logLik, logPriorMu), logPriorSig)
\* the bracket with its middle term taken once: - mu * SUM_LOG_X
QuadTermSingleCross(mu) ==
    FAdd(FSub(SUM_LOG_X_SQ, FMul(mu, SUM_LOG_X)), FMul(FMul(N_OBS * Scale, mu), mu))

\* SUM_LOG_X_SQ - 2 * mu * SUM_LOG_X + N_OBS * mu * mu
QuadTerm(mu) ==
    FAdd(FSub(SUM_LOG_X_SQ, FMul(FMul(2 * Scale, mu), SUM_LOG_X)),
         FMul(FMul(N_OBS * Scale, mu), mu))

\* TARGET_LOG_PROB(mu, sig)
TARGET_LOG_PROB(mu, sig) ==
    IF FLe(sig, 0) THEN NegInf
    ELSE LET sig2 == FMul(sig, sig)
             quad == QuadTerm(mu)
             logLik == FSub(FMul(-N_OBS * Scale, Log(sig)),
                            FMul(FDiv(Scale, FMul(2 * Scale, sig2)), quad))
             logPriorMu == FMul(FMul(-(Scale \div 2), mu), mu)
             logPriorSig == FMul(FMul(-(Scale \div 2), sig), sig)
         IN  FAdd(FAdd(logLik, logPriorMu), logPriorSig)

\* what a call TARGET_LOG_PROB(mu, sig) evaluates: the arguments it hands to
\* Math.log and the divisors of its divisions
TargetLogProbTrace(mu, sig) ==
    IF FLe(sig, 0) THEN [logs |-> <<>>, divs |-> <<>>]
    ELSE [logs |-> <<sig>>, divs |-> <<FMul(2 * Scale, FMul(sig, sig))>>]

\* a generator kept from the run before instead of a new one
seededRNGShared(sd) == IF rng = <<>> THEN sd ELSE rng[1]

\* seededRNG(seed): the s of the new closure
seededRNG(sd) == sd

\* a closure that advances its state twice per call
RngCallTwice(s) == LcgStep(LcgStep(s))

\* one call of the closure seededRNG returned: the state s after it
\* (the value it returns is Unit of that state)
RngCall(s) == LcgStep(s)

\* the offset without its - 1: rng() * 2 * step
OffsetUncentred(s, step) == FMul(FMul(Unit(s), 2 * Scale), step)

\* (rng() * 2 - 1) * step for the call that left the generator in state s
Offset(s, step) == FMul(FSub(FMul(Unit(s), 2 * Scale), Scale), step)

\* the acceptance test written !(logA <= Math.log(rng() + 1e-12))
AcceptsUnlessAbove(logU, logA) == ~FLe(logA, logU)

\* the acceptance test with its two sides exchanged
AcceptsWhenBelow(logU, logA) == FLt(logA, logU)

\* the acceptance test of mhStep: Math.log(rng() + 1e-12) < logA
Accepts(logU, logA) == FLt(logU, logA)

\* mhStep whose early return hands back the proposal, not the current position
mhStepReturnsProposal(muCurr, sigCurr, step, s) ==
    LET s1 == RngCall(s)
        s2 == RngCall(s1)
        muProp == FAdd(muCurr, FMul(FSub(FMul(Unit(s1), 2 * Scale), Scale), step))
        sigProp == FAdd(sigCurr, FMul(FSub(FMul(Unit(s2), 2 * Scale), Scale), step))
    IN  IF FLe(sigProp, 0)
        THEN [mu |-> muProp, sig |-> sigProp, acc |-> FALSE, s |-> s2,
              muProp |-> muProp, sigProp |-> sigProp, draws |-> 2,
              us |-> <<s1, s2>>, logA |-> <<>>, logU |-> <<>>, evals |-> 0]
        ELSE LET logA == FSub(TARGET_LOG_PROB(muProp, sigProp),
                              TARGET_LOG_PROB(muCurr, sigCurr))
                 s3 == RngCall(s2)
                 logU == LogUnitEps(s3)
             IN  IF Accepts(logU, logA)
                 THEN [mu |-> muProp, sig |-> sigProp, acc |-> TRUE, s |-> s3,
                       muProp |-> muProp, sigProp |-> sigProp, draws |-> 3,
                       us |-> <<s1, s2, s3>>, logA |-> <<logA>>, logU |-> <<logU>>,
                       evals |-> 2]
                 ELSE [mu |-> muCurr, sig |-> sigCurr, acc |-> FALSE, s |-> s3,
                       muProp |-> muProp, sigProp |-> sigProp, draws |-> 3,
                       us |-> <<s1, s2, s3>>, logA |-> <<logA>>, logU |-> <<logU>>,
                       evals |-> 2]

\* mhStep that works out logA before it looks at the sign of the proposed sigma
mhStepEvaluatesFirst(muCurr, sigCurr, step, s) ==
    LET s1 == RngCall(s)
        s2 == RngCall(s1)
        muProp == FAdd(muCurr, Offset(s1, step))
        sigProp == FAdd(sigCurr, Offset(s2, step))
    IN  IF FLe(sigProp, 0)
        THEN [mu |-> muCurr, sig |-> sigCurr, acc |-> FALSE, s |-> s2,
              muProp |-> muProp, sigProp |-> sigProp, draws |-> 2,
              us |-> <<s1, s2>>, logA |-> <<>>, logU |-> <<>>, evals |-> 2]
        ELSE LET logA == FSub(TARGET_LOG_PROB(muProp, sigProp),
                              TARGET_LOG_PROB(muCurr, sigCurr))
                 s3 == RngCall(s2)
                 logU == LogUnitEps(s3)
             IN  IF Accepts(logU, logA)
                 THEN [mu |-> muProp, sig |-> sigProp, acc |-> TRUE, s |-> s3,
                       muProp |-> muProp, sigProp |-> sigProp, draws |-> 3,
                       us |-> <<s1, s2, s3>>, logA |-> <<logA>>, logU |-> <<logU>>,
                       evals |-> 2]
                 ELSE [mu |-> muCurr, sig |-> sigCurr, acc |-> FALSE, s |-> s3,
                       muProp |-> muProp, sigProp |-> sigProp, draws |-> 3,
                       us |-> <<s1, s2, s3>>, logA |-> <<logA>>, logU |-> <<logU>>,
                       evals |-> 2]

\* mhStep: the returned [mu, sig, acc], with the generator state it leaves
\* behind, the proposal it made, the number of rng() calls it made, the
\* generator states its draws read (us), logA and the logarithm compared with
\* it when they were computed, and the number of TARGET_LOG_PROB calls (evals)
mhStep(muCurr, sigCurr, step, s) ==
    LET s1 == RngCall(s)
        s2 == RngCall(s1)
        muProp == FAdd(muCurr, Offset(s1, step))
        sigProp == FAdd(sigCurr, Offset(s2, step))
    IN  IF FLe(sigProp, 0)
        THEN [mu |-> muCurr, sig |-> sigCurr, acc |-> FALSE, s |-> s2,
              muProp |-> muProp, sigProp |-> sigProp, draws |-> 2,
              us |-> <<s1, s2>>, logA |-> <<>>, logU |-> <<>>, evals |-> 0]
        ELSE LET logA == FSub(TARGET_LOG_PROB(muProp, sigProp),
                              TARGET_LOG_PROB(muCurr, sigCurr))
                 s3 == RngCall(s2)
                 logU == LogUnitEps(s3)
             IN  IF Accepts(logU, logA)
                 THEN [mu |-> muProp, sig |-> sigProp, acc |-> TRUE, s |-> s3,
                       muProp |-> muProp, sigProp |-> sigProp, draws |-> 3,
                       us |-> <<s1, s2, s3>>, logA |-> <<logA>>, logU |-> <<logU>>,
                       evals |-> 2]
                 ELSE [mu |-> muCurr, sig |-> sigCurr, acc |-> FALSE, s |-> s3,
                       muProp |-> muProp, sigProp |-> sigProp, draws |-> 3,
                       us |-> <<s1, s2, s3>>, logA |-> <<logA>>, logU |-> <<logU>>,
                       evals |-> 2]

(***************************************************************************)
(* Heatmap grid                                                            *)
(***************************************************************************)
MU_MIN == 5000                \* 0.5
MU_MAX == 17000               \* 1.7
SIG_MIN == 2000               \* 0.2
SIG_MAX == 11000              \* 1.1
GRID_STEPS == 50

\* MU_MIN + (i / (GRID_STEPS - 1)) * (MU_MAX - MU_MIN)
GridMu(i) ==
    FAdd(MU_MIN, FMul(FDiv(i * Scale, (GRID_STEPS - 1) * Scale), FSub(MU_MAX, MU_MIN)))

\* SIG_MIN + (j / (GRID_STEPS - 1)) * (SIG_MAX - SIG_MIN)
GridSig(j) ==
    FAdd(SIG_MIN, FMul(FDiv(j * Scale, (GRID_STEPS - 1) * Scale), FSub(SIG_MAX, SIG_MIN)))

\* the first loop nest: grid[i][j] = v
GridRaw ==
    [i \in 0..(GRID_STEPS - 1) |->
        [j \in 0..(GRID_STEPS - 1) |-> TARGET_LOG_PROB(GridMu(i), GridSig(j))]]

\* the first loop nest, cell by cell in the order i, j: st = [k, maxV] where
\* k = i * GRID_STEPS + j is the next cell
RECURSIVE GridMaxTo(_, _, _)
GridMaxTo(raw, st, n) ==
    IF st.k >= n THEN st
    ELSE IF st.k + 1 = n
         THEN LET v == raw[st.k \div GRID_STEPS][st.k % GRID_STEPS]
              IN  [k |-> n, maxV |-> IF isFinite(v) THEN FMax(st.maxV, v) ELSE st.maxV]
    ELSE GridMaxTo(raw, GridMaxTo(raw, st, (st.k + n) \div 2), n)

\* the first pass started from let maxV = 0
GridMaxVFromZero(raw) ==
    GridMaxTo(raw, [k |-> 0, maxV |-> 0], GRID_STEPS * GRID_STEPS).maxV

\* let maxV = -Infinity, and maxV when the first loop nest ends
GridMaxV(raw) ==
    GridMaxTo(raw, [k |-> 0, maxV |-> NegInf], GRID_STEPS * GRID_STEPS).maxV

\* the map callback of the second pass: one cell of the normalised grid
GridCell(v, maxV) == IF isFinite(v) THEN Exp(FSub(v, maxV)) ELSE 0

\* the second pass: grid.map(row => row.map(...)) with the maxV of the first
GridMap(raw, maxV) ==
    [i \in 0..(GRID_STEPS - 1) |->
        [j \in 0..(GRID_STEPS - 1) |-> GridCell(raw[i][j], maxV)]]

\* the two passes over a grid of log densities
NormaliseGrid(raw) == GridMap(raw, GridMaxV(raw))

\* the useMemo callback
buildContourGrid == NormaliseGrid(GridRaw)

(***************************************************************************)
(* MCMCSamplingVisualizer                                                  *)
(***************************************************************************)
START_MU == 10000             \* let mu = 1.0
START_SIG == 6000             \* sig = 0.6
burnIn == 100
TRAJ_STEPS == 80
DEFAULT_NUM_SAMPLES == 300
DEFAULT_STEP_SIZE == 1500     \* 0.15
DEFAULT_SEED == 42

Point(mu, sig) == [x |-> mu, y |-> sig]

\* the count taken inside if (i >= burnIn)
CountAcceptedKept(accepted, acc, i) ==
    IF acc /\ i >= burnIn THEN accepted + 1 ELSE accepted

\* if (acc) accepted++
CountAccepted(accepted, acc, i) == IF acc THEN accepted + 1 ELSE accepted

\* the test written i > burnIn
KeepSampleLate(i) == i > burnIn

\* if (i >= burnIn) newSamples.push(...)
KeepSample(i) == i >= burnIn

\* if (i >= burnIn && i < burnIn + 80) trajectory.push(...)
KeepTrajectory(i) == i >= burnIn /\ i < burnIn + TRAJ_STEPS

\* accepted / total, kept as the exact fraction <<accepted, total>>
AcceptanceRate(accepted, total) == <<accepted, total>>

\* the body of the for loop of runSampler after its mhStep call returned r;
\* st holds the locals
SamplerRecord(st, r) ==
    [i |-> st.i + 1, mu |-> r.mu, sig |-> r.sig, s |-> r.s,
     accepted |-> CountAccepted(st.accepted, r.acc, st.i),
     newSamples |-> IF KeepSample(st.i)
                    THEN Append(st.newSamples, Point(r.mu, r.sig))
                    ELSE st.newSamples,
     trajectory |-> IF KeepTrajectory(st.i)
                    THEN Append(st.trajectory, Point(r.mu, r.sig))
                    ELSE st.trajectory,
     log |-> Append(st.log, [mu |-> r.mu, sig |-> r.sig, acc |-> r.acc,
                             sigProp |-> r.sigProp, draws |-> r.draws,
                             muProp |-> r.muProp, us |-> r.us, logA |-> r.logA,
                             logU |-> r.logU, evals |-> r.evals,
                             muCurr |-> st.mu, sigCurr |-> st.sig,
                             counted |-> CountAccepted(st.accepted, r.acc, st.i)
                                           - st.accepted])]

\* one iteration of the for loop of runSampler
SamplerIter(step, st) == SamplerRecord(st, mhStep(st.mu, st.sig, step, st.s))

\* the for loop of runSampler while i < total
RECURSIVE SamplerLoop(_, _, _)
SamplerLoop(step, st, total) ==
    IF st.i >= total THEN st
    ELSE IF st.i + 1 = total THEN SamplerIter(step, st)
    ELSE SamplerLoop(step, SamplerLoop(step, st, (st.i + total) \div 2), total)

\* the locals of runSampler when its for loop is at iteration i, the chain at
\* (mu, sig) and nothing recorded yet
SamplerLocals(i, mu, sig, s) ==
    [i |-> i, mu |-> mu, sig |-> sig, s |-> s,
     accepted |-> 0, newSamples |-> <<>>,
     trajectory |-> <<Point(mu, sig)>>, log |-> <<>>]

\* runSampler up to its setState calls: the locals when the loop ends
runSampler(sd, step, n) ==
    SamplerLoop(step, SamplerLocals(0, START_MU, START_SIG, seededRNG(sd)), n + burnIn)

(***************************************************************************)
(* BetaBinomialUpdater                                                     *)
(***************************************************************************)
PRESETS == <<[a |-> 1, b |-> 1], [a |-> 2, b |-> 8], [a |-> 6, b |-> 4], [a |-> 4, b |-> 6]>>

priorA == PRESETS[priorPreset + 1].a
priorB == PRESETS[priorPreset + 1].b
successes == Len(SelectSeq(observations, LAMBDA v : v))
failures == Len(SelectSeq(observations, LAMBDA v : ~v))
postA == priorA + successes
postB == priorB + failures
posteriorMean == FDiv(postA * Scale, (postA + postB) * Scale)

\* an updater that drops what was observed before
addObsOverwrites(prev, success) == <<success>>

\* the updater that addObs hands to setObservations: prev => [...prev, success]
addObs(prev, success) == Append(prev, success)

\* the updater that addObs and reset hand to setAnimKey: k => k + 1
BumpAnimKey(k) == k + 1

\* reset: setObservations([])
reset == <<>>

\* five calls that each set [...observations, success] from the array of
\* the render the handler closes over: the last one stands
AddFiveFromRender(prev, draws) == addObs(prev, draws[5])

\* the five addObs calls of the +5 random button, draws[i] being the outcome
\* of Math.random() < 0.4 in call i
AddFive(prev, draws) ==
    addObs(addObs(addObs(addObs(addObs(prev, draws[1]), draws[2]), draws[3]),
                  draws[4]), draws[5])

(***************************************************************************)
(* IEEE 754 binary64, exactly: what a JavaScript number is.  A natural     *)
(* number is the sequence of its digits in base 2^15, least significant    *)
(* first and no zero at the top; a finite double is (-1)^neg * m * 2^e     *)
(* with 2^52 <= m < 2^53, or m = 0.  The exponent range is not modelled:   *)
(* the values below stay between 2^-40 and 2^40.                           *)
(***************************************************************************)
Limb == 32768
LimbBits == 15
MantissaBits == 53

RECURSIVE NTrim(_)
NTrim(a) ==
    IF a = <<>> \/ a[Len(a)] # 0 THEN a ELSE NTrim(SubSeq(a, 1, Len(a) - 1))

NHead(a) == IF a = <<>> THEN 0 ELSE Head(a)
NTail(a) == IF a = <<>> THEN <<>> ELSE Tail(a)

RECURSIVE NZeros(_)
NZeros(n) == IF n <= 0 THEN <<>> ELSE <<0>> \o NZeros(n - 1)

RECURSIVE NFromInt(_)
NFromInt(k) == IF k = 0 THEN <<>> ELSE <<k % Limb>> \o NFromInt(k \div Limb)

\* a + b + c for a carry c
RECURSIVE NAddC(_, _, _)
NAddC(a, b, c) ==
    IF a = <<>> /\ b = <<>> THEN (IF c = 0 THEN <<>> ELSE <<c>>)
    ELSE <<(NHead(a) + NHead(b) + c) % Limb>>
         \o NAddC(NTail(a), NTail(b), (NHead(a) + NHead(b) + c) \div Limb)

NAdd(a, b) == NAddC(a, b, 0)

\* a - b - c for a borrow c, where a >= b + c
RECURSIVE NSubB(_, _, _)
NSubB(a, b, c) ==
    IF a = <<>> THEN <<>>
    ELSE <<(Head(a) - NHead(b) - c) % Limb>>
         \o NSubB(Tail(a), NTail(b), IF Head(a) - NHead(b) - c < 0 THEN 1 ELSE 0)

NSub(a, b) == NTrim(NSubB(a, b, 0))

RECURSIVE NLess(_, _)
NLess(a, b) ==
    IF Len(a) # Len(b) THEN Len(a) < Len(b)
    ELSE IF a = <<>> THEN FALSE
    ELSE IF a[Len(a)] # b[Len(b)] THEN a[Len(a)] < b[Len(b)]
    ELSE NLess(SubSeq(a, 1, Len(a) - 1), SubSeq(b, 1, Len(b) - 1))

\* a * d + c for one digit d and a carry c
RECURSIVE NMulC(_, _, _)
NMulC(a, d, c) ==
    IF a = <<>> THEN (IF c = 0 THEN <<>> ELSE <<c>>)
    ELSE <<(Head(a) * d + c) % Limb>> \o NMulC(Tail(a), d, (Head(a) * d + c) \div Limb)

RECURSIVE NMulU(_, _)
NMulU(a, b) ==
    IF b = <<>> THEN <<>>
    ELSE NAdd(NMulC(a, Head(b), 0), <<0>> \o NMulU(a, Tail(b)))

NMul(a, b) == NTrim(NMulU(a, b))

\* a divided by one digit d: the quotient q and the remainder r
RECURSIVE NDivSmall(_, _)
NDivSmall(a, d) ==
    IF a = <<>> THEN [q |-> <<>>, r |-> 0]
    ELSE LET hi == NDivSmall(Tail(a), d)
         IN  [q |-> <<(hi.r * Limb + Head(a)) \div d>> \o hi.q,
              r |-> (hi.r * Limb + Head(a)) % d]

\* a * 2^k
NShl(a, k) ==
    IF a = <<>> THEN <<>>
    ELSE NZeros(k \div LimbBits) \o NMulC(a, 2^(k % LimbBits), 0)

\* a divided by 2^k, rounded down
NShr(a, k) ==
    IF k \div LimbBits >= Len(a) THEN <<>>
    ELSE NTrim(NDivSmall(SubSeq(a, (k \div LimbBits) + 1, Len(a)), 2^(k % LimbBits)).q)

RECURSIVE BitLen(_)
BitLen(x) == IF x = 0 THEN 0 ELSE 1 + BitLen(x \div 2)

NBitLen(a) == IF a = <<>> THEN 0 ELSE LimbBits * (Len(a) - 1) + BitLen(a[Len(a)])

\* bit i of a
NBit(a, i) ==
    IF i \div LimbBits >= Len(a) THEN 0
    ELSE (a[(i \div LimbBits) + 1] \div 2^(i % LimbBits)) % 2

\* one step of the long division of a by b, bit by bit from the top: st =
\* [k, q, r] after k of the n bits of a
NDivStep(a, b, n, st) ==
    LET r2 == NAddC(st.r, st.r, NBit(a, n - 1 - st.k))
    IN  IF NLess(r2, b)
        THEN [k |-> st.k + 1, q |-> NAddC(st.q, st.q, 0), r |-> r2]
        ELSE [k |-> st.k + 1, q |-> NAddC(st.q, st.q, 1), r |-> NSub(r2, b)]

\* the steps st.k .. m - 1
RECURSIVE NDivLoop(_, _, _, _, _)
NDivLoop(a, b, n, st, m) ==
    IF st.k >= m THEN st
    ELSE IF st.k + 1 = m THEN NDivStep(a, b, n, st)
    ELSE NDivLoop(a, b, n, NDivLoop(a, b, n, st, (st.k + m) \div 2), m)

\* the quotient q and the remainder r of a by b
NDivMod(a, b) ==
    NDivLoop(a, b, NBitLen(a), [k |-> 0, q |-> <<>>, r |-> <<>>], NBitLen(a))

\* one step of the square root rounded down, bit by bit from bit n - 1:
\* st = [k, r] after k bits
NSqrtStep(a, n, st) ==
    LET t == NAdd(st.r, NShl(<<1>>, n - 1 - st.k))
    IN  [k |-> st.k + 1, r |-> IF NLess(a, NMul(t, t)) THEN st.r ELSE t]

RECURSIVE NSqrtLoop(_, _, _, _)
NSqrtLoop(a, n, st, m) ==
    IF st.k >= m THEN st
    ELSE IF st.k + 1 = m THEN NSqrtStep(a, n, st)
    ELSE NSqrtLoop(a, n, NSqrtLoop(a, n, st, (st.k + m) \div 2), m)

NSqrt(a) ==
    NSqrtLoop(a, NBitLen(a) \div 2 + 1, [k |-> 0, r |-> <<>>], NBitLen(a) \div 2 + 1).r

F64Zero(neg) == [neg |-> neg, m |-> <<>>, e |-> 0]

\* the double nearest to (-1)^neg * n * 2^e, ties to even; sticky: n is the
\* exact value rounded down, and has more than 54 bits
F64Round(neg, n, e, sticky) ==
    LET sh == NBitLen(n) - MantissaBits
        q == NShr(n, sh)
        rem == NSub(n, NShl(q, sh))
        half == NShl(<<1>>, sh - 1)
        up == NLess(half, rem) \/ (rem = half /\ (sticky \/ NBit(q, 0) = 1))
        q2 == IF up THEN NAdd(q, <<1>>) ELSE q
    IN  IF n = <<>> THEN F64Zero(neg)
        ELSE IF sh <= 0 THEN [neg |-> neg, m |-> NShl(n, -sh), e |-> e + sh]
        ELSE IF NBitLen(q2) > MantissaBits
             THEN [neg |-> neg, m |-> NShr(q2, 1), e |-> e + sh + 1]
        ELSE [neg |-> neg, m |-> q2, e |-> e + sh]

\* the integer k as a double
F64Int(k) == F64Round(k < 0, NFromInt(Abs(k)), 0, FALSE)

\* x * y
F64Mul(x, y) == F64Round(x.neg # y.neg, NMul(x.m, y.m), x.e + y.e, FALSE)

\* x / y for y # 0
F64Div(x, y) ==
    LET d == NDivMod(NShl(x.m, MantissaBits + 3), y.m)
    IN  F64Round(x.neg # y.neg, d.q, x.e - y.e - (MantissaBits + 3), d.r # <<>>)

\* x + y
F64Add(x, y) ==
    LET e == IF x.e < y.e THEN x.e ELSE y.e
        a == NShl(x.m, x.e - e)
        b == NShl(y.m, y.e - e)
    IN  IF x.m = <<>> THEN (IF y.m = <<>> THEN F64Zero(x.neg /\ y.neg) ELSE y)
        ELSE IF y.m = <<>> THEN x
        ELSE IF x.neg = y.neg THEN F64Round(x.neg, NAdd(a, b), e, FALSE)
        ELSE IF a = b THEN F64Zero(FALSE)
        ELSE IF NLess(a, b) THEN F64Round(y.neg, NSub(b, a), e, FALSE)
        ELSE F64Round(x.neg, NSub(a, b), e, FALSE)

\* Math.sqrt(x) for x >= 0
F64Sqrt(x) ==
    LET k == IF x.e % 2 = 0 THEN MantissaBits + 3 ELSE MantissaBits + 4
        n == NShl(x.m, k)
        r == NSqrt(n)
    IN  F64Round(FALSE, r, (x.e - k) \div 2, NMul(r, r) # n)

\* x ** 2
F64Square(x) == F64Mul(x, x)

\* x === y
F64Eq(x, y) == x.m = y.m /\ (x.m = <<>> \/ (x.neg = y.neg /\ x.e = y.e))

\* the number a range input or a literal gives for t tenths: the double
\* nearest to t / 10
Tenths(t) == F64Div(F64Int(t), F64Int(10))

(***************************************************************************)
(* The Normal-Normal update, as ChapterInference and as                    *)
(* PosteriorUpdateVisualization compute it; the four parameters are kept   *)
(* in tenths, the step of their sliders                                    *)
(***************************************************************************)
\* ChapterInference: prec0, precD, posteriorSigma and posteriorMu
InfPrec0 == F64Div(F64Int(1), F64Square(Tenths(priorSigma)))
InfPrecD == F64Div(F64Int(1), F64Square(Tenths(dataSigma)))
InfPosteriorSigma == F64Sqrt(F64Div(F64Int(1), F64Add(InfPrec0, InfPrecD)))
InfPosteriorMu ==
    F64Mul(F64Square(InfPosteriorSigma),
           F64Add(F64Mul(InfPrec0, Tenths(priorMu)), F64Mul(InfPrecD, Tenths(dataMu))))

\* PosteriorUpdateVisualization: posteriorVar, posteriorSigma and posteriorMu
VisPosteriorVar ==
    F64Div(F64Int(1), F64Add(F64Div(F64Int(1), F64Square(Tenths(priorSigma))),
                             F64Div(F64Int(1), F64Square(Tenths(dataSigma)))))
VisPosteriorSigma == F64Sqrt(VisPosteriorVar)
VisPosteriorMu ==
    F64Mul(VisPosteriorVar,
           F64Add(F64Div(Tenths(priorMu), F64Square(Tenths(priorSigma))),
                  F64Div(Tenths(dataMu), F64Square(Tenths(dataSigma)))))

(***************************************************************************)
(* The application                                                         *)
(***************************************************************************)
\* the positions of the three range inputs that the model moves them to
MaxSamplesTick == 1
MaxSeed == 12
NumSamplesChoices == {50 * k : k \in 1..MaxSamplesTick} \cup {DEFAULT_NUM_SAMPLES}
StepSizeChoices == {700, DEFAULT_STEP_SIZE}
SeedChoices == 1..MaxSeed \cup {DEFAULT_SEED}

\* animKey grows with every press: the presses the model follows
MaxAnimKey == 6

CHAPTERS == {"mindset", "model_building", "inference", "validation"}

\* the state of a MCMCSamplingVisualizer that has just been mounted, or of none
McmcMounted(g) ==
    /\ samples = <<>> /\ path = <<>> /\ running = FALSE
    /\ numSamples = DEFAULT_NUM_SAMPLES /\ stepSize = DEFAULT_STEP_SIZE
    /\ seed = DEFAULT_SEED /\ acceptance = <<>>
    /\ grid = g /\ rng = <<>> /\ chainLog = <<>>

\* module load: the dataset and its statistics
DataInit ==
    /\ DATA = genData(SEED_DATA, N_OBS, TRUE_MU, TRUE_SIG)
    /\ SUM_LOG_X = SumLog(DATA, [i |-> 0, s |-> 0], N_OBS).s
    /\ SUM_LOG_X_SQ = SumLogSq(DATA, [i |-> 0, s |-> 0], N_OBS).s

\* the state of a BetaBinomialUpdater that has just been mounted, or of none
BetaMounted ==
    priorPreset = 0 /\ observations = <<>> /\ animKey = 0

\* no MCMCTraceViewer is mounted
TraceUnmounted == trace = <<>>

\* the state of a MCMCTraceViewer that has just been mounted: its three
\* useState cells, the interval its effect has set, the calls of the timer
\* so far and the state of Math.random (not known before its first call)
TraceMounted ==
    [samples1 |-> <<>>, samples2 |-> <<>>, isSimulating |-> TRUE,
     interval |-> TRUE, ticks |-> 0, random |-> <<>>]

\* the useState cells of App
AppInit ==
    /\ activeChapter = "mindset"
    /\ priorMu = 0 /\ priorSigma = 10
    /\ dataMu = 25 /\ dataSigma = 8

Init ==
    /\ DataInit
    /\ AppInit
    /\ McmcMounted(<<>>)
    /\ BetaMounted
    /\ TraceUnmounted
    /\ chain = <<>> /\ gens = <<>> /\ logGrid = <<>> /\ calc = <<>>

\* what no handler of MCMCSamplingVisualizer touches
outsideMcmc == <<activeChapter, dataVars, betaVars, normalVars, chain, gens, logGrid, calc, trace>>

\* what no handler of BetaBinomialUpdater touches
outsideBeta == <<activeChapter, dataVars, mcmcVars, normalVars, chain, gens, logGrid, calc, trace>>

\* the onChange of the three range inputs: set the value, clear the results
ClearResults ==
    /\ samples' = <<>> /\ path' = <<>> /\ acceptance' = <<>>
    /\ rng' = <<>> /\ chainLog' = <<>>

SetNumSamples ==
    /\ activeChapter = "inference"
    /\ \E v \in NumSamplesChoices \ {numSamples} : numSamples' = v
    /\ ClearResults
    /\ UNCHANGED <<outsideMcmc, running, stepSize, seed, grid>>

SetStepSize ==
    /\ activeChapter = "inference"
    /\ \E v \in StepSizeChoices \ {stepSize} : stepSize' = v
    /\ ClearResults
    /\ UNCHANGED <<outsideMcmc, running, numSamples, seed, grid>>

\* a seed slider whose onChange only sets the seed
SetSeedKeepsResults ==
    /\ activeChapter = "inference"
    /\ \E v \in SeedChoices \ {seed} : seed' = v
    /\ UNCHANGED <<outsideMcmc, running, numSamples, stepSize, grid,
                   samples, path, acceptance, rng, chainLog>>

SetSeed ==
    /\ activeChapter = "inference"
    /\ \E v \in SeedChoices \ {seed} : seed' = v
    /\ ClearResults
    /\ UNCHANGED <<outsideMcmc, running, numSamples, stepSize, grid>>

\* the setState calls without the closing setRunning(false): the value of
\* setRunning(true) is the one the batch commits
SetResultsLeavesRunning(out, total) ==
    /\ samples' = out.newSamples
    /\ path' = out.trajectory
    /\ acceptance' = AcceptanceRate(out.accepted, total)
    /\ running' = TRUE
    /\ rng' = <<out.s>>
    /\ chainLog' = out.log

\* the setState calls that end runSampler, out being the locals after the loop
SetResults(out, total) ==
    /\ samples' = out.newSamples
    /\ path' = out.trajectory
    /\ acceptance' = AcceptanceRate(out.accepted, total)
    /\ running' = FALSE
    /\ rng' = <<out.s>>
    /\ chainLog' = out.log

\* a Run Sampler that rebuilds the dataset from the seed of the slider
RunSamplerRegenerates ==
    /\ activeChapter = "inference"
    /\ ~running
    /\ SetResults(runSampler(seed, stepSize, numSamples), numSamples + burnIn)
    /\ DATA' = genData(seed, N_OBS, TRUE_MU, TRUE_SIG)
    /\ SUM_LOG_X' = SumLog(DATA', [i |-> 0, s |-> 0], N_OBS).s
    /\ SUM_LOG_X_SQ' = SumLogSq(DATA', [i |-> 0, s |-> 0], N_OBS).s
    /\ UNCHANGED <<activeChapter, betaVars, normalVars, chain, gens, logGrid, calc, trace,
                   numSamples, stepSize, seed, grid>>

\* the Run Sampler button (disabled while running)
RunSampler ==
    /\ activeChapter = "inference"
    /\ ~running
    /\ SetResults(runSampler(seed, stepSize, numSamples), numSamples + burnIn)
    /\ UNCHANGED <<outsideMcmc, numSamples, stepSize, seed, grid>>

\* the Success and Failure buttons: addObs(success)
AddObs(success) ==
    /\ activeChapter = "mindset"
    /\ animKey < MaxAnimKey
    /\ observations' = addObs(observations, success)
    /\ animKey' = BumpAnimKey(animKey)
    /\ UNCHANGED <<outsideBeta, priorPreset>>

AddSuccess == AddObs(TRUE)
AddFailure == AddObs(FALSE)

\* the +5 random button: five addObs calls, their updaters applied in order
AddFiveRandom ==
    /\ activeChapter = "mindset"
    /\ animKey + 5 <= MaxAnimKey
    /\ \E draws \in [1..5 -> BOOLEAN] : observations' = AddFive(observations, draws)
    /\ animKey' = BumpAnimKey(BumpAnimKey(BumpAnimKey(BumpAnimKey(BumpAnimKey(animKey)))))
    /\ UNCHANGED <<outsideBeta, priorPreset>>

\* the Reset button
Reset ==
    /\ activeChapter = "mindset"
    /\ animKey < MaxAnimKey
    /\ observations' = reset
    /\ animKey' = BumpAnimKey(animKey)
    /\ UNCHANGED <<outsideBeta, priorPreset>>

\* a prior button whose onClick is setPriorPreset(i) alone
SelectPresetKeepsHistory ==
    /\ activeChapter = "mindset"
    /\ animKey < MaxAnimKey
    /\ \E i \in 0..(Len(PRESETS) - 1) : priorPreset' = i
    /\ animKey' = BumpAnimKey(animKey)
    /\ UNCHANGED <<outsideBeta, observations>>

\* a prior button: setPriorPreset(i); reset()
SelectPreset ==
    /\ activeChapter = "mindset"
    /\ animKey < MaxAnimKey
    /\ \E i \in 0..(Len(PRESETS) - 1) : priorPreset' = i
    /\ observations' = reset
    /\ animKey' = BumpAnimKey(animKey)
    /\ UNCHANGED outsideBeta

\* a navigation that carries the sampler's three parameters over
NavigateKeepsSampler ==
    /\ \E c \in CHAPTERS \ {activeChapter} :
          /\ activeChapter' = c
          /\ logGrid' = IF c = "inference" THEN GridRaw ELSE <<>>
          /\ grid' = IF c = "inference" THEN NormaliseGrid(logGrid') ELSE <<>>
    /\ samples' = <<>> /\ path' = <<>> /\ running' = FALSE
    /\ acceptance' = <<>>
    /\ rng' = <<>> /\ chainLog' = <<>>
    /\ priorPreset' = 0 /\ observations' = <<>> /\ animKey' = 0
    /\ trace' = IF activeChapter' = "inference" THEN TraceMounted ELSE <<>>
    /\ UNCHANGED <<dataVars, normalVars, chain, gens, calc, numSamples, stepSize, seed>>
\* a sidebar button: the old chapter's components unmount, the new one's mount
Navigate ==
    /\ \E c \in CHAPTERS \ {activeChapter} :
          /\ activeChapter' = c
          /\ logGrid' = IF c = "inference" THEN GridRaw ELSE <<>>
          /\ grid' = IF c = "inference" THEN NormaliseGrid(logGrid') ELSE <<>>
    /\ samples' = <<>> /\ path' = <<>> /\ running' = FALSE
    /\ numSamples' = DEFAULT_NUM_SAMPLES /\ stepSize' = DEFAULT_STEP_SIZE
    /\ seed' = DEFAULT_SEED /\ acceptance' = <<>>
    /\ rng' = <<>> /\ chainLog' = <<>>
    /\ priorPreset' = 0 /\ observations' = <<>> /\ animKey' = 0
    /\ trace' = IF activeChapter' = "inference" THEN TraceMounted ELSE <<>>
    /\ UNCHANGED <<dataVars, normalVars, chain, gens, calc>>

\* the application with the sampler's chapter: navigation and the sampler
Next == Navigate \/ SetNumSamples \/ SetStepSize \/ SetSeed \/ RunSampler

Spec == Init /\ [][Next]_vars

\* the updater while its chapter, the first one, stays on screen
NextBeta == AddSuccess \/ AddFailure \/ AddFiveRandom \/ Reset \/ SelectPreset

SpecBeta == Init /\ [][NextBeta]_vars

(***************************************************************************)
(* The Metropolis-Hastings loop on its own: the for loop of runSampler     *)
(* past its burn-in, from chain positions down to the sigma = 0 boundary   *)
(***************************************************************************)
MaxMhSteps == 6
MhStartSigmas == {START_SIG, 1000, 500, 1}
MhSteps == {100, DEFAULT_STEP_SIZE, 3000}
MhSeeds == {1, 2, 3, DEFAULT_SEED}

InitMH ==
    /\ DataInit /\ AppInit /\ McmcMounted(<<>>) /\ BetaMounted /\ TraceUnmounted
    /\ gens = <<>> /\ logGrid = <<>> /\ calc = <<>>
    /\ \E sg \in MhStartSigmas, sd \in MhSeeds, st \in MhSteps :
          chain = [step |-> st,
                   st |-> SamplerLocals(burnIn, START_MU, sg, seededRNG(sd))]

\* one more iteration of the for loop
MhIterate ==
    /\ chain.st.i < burnIn + MaxMhSteps
    /\ chain' = [chain EXCEPT !.st = SamplerIter(chain.step, chain.st)]
    /\ UNCHANGED <<activeChapter, dataVars, mcmcVars, betaVars, normalVars, gens, logGrid, calc, trace>>

SpecMH == InitMH /\ [][MhIterate]_vars

(***************************************************************************)
(* The two generators on their own: the closure seededRNG returns and the  *)
(* closure u of genData, created from one seed and called independently    *)
(***************************************************************************)
MaxDraws == 4
RngSeeds == {0, 1, SEED_DATA, 200, 2147483647, -2147483647 - 1}

InitRng ==
    /\ DataInit /\ AppInit /\ McmcMounted(<<>>) /\ BetaMounted /\ TraceUnmounted
    /\ chain = <<>> /\ logGrid = <<>> /\ calc = <<>>
    /\ \E sd \in RngSeeds :
          gens = [seed |-> sd, g |-> seededRNG(sd), d |-> sd,
                  gout |-> <<>>, dout |-> <<>>]

\* rng(): a call of the closure seededRNG returned
RngDraw ==
    /\ Len(gens.gout) < MaxDraws
    /\ gens' = [gens EXCEPT !.g = RngCall(gens.g),
                            !.gout = Append(gens.gout, RngCall(gens.g))]
    /\ UNCHANGED <<activeChapter, dataVars, mcmcVars, betaVars, normalVars, chain, logGrid, calc, trace>>

\* u(): a call of the closure of genData
DataDraw ==
    /\ Len(gens.dout) < MaxDraws
    /\ gens' = [gens EXCEPT !.d = GenDataU(gens.d),
                            !.dout = Append(gens.dout, GenDataU(gens.d))]
    /\ UNCHANGED <<activeChapter, dataVars, mcmcVars, betaVars, normalVars, chain, logGrid, calc, trace>>

NextRng == RngDraw \/ DataDraw

SpecRng == InitRng /\ [][NextRng]_vars

(***************************************************************************)
(* Claims                                                                  *)
(***************************************************************************)
\* the sampler shows the results of a run
HasResults == acceptance # <<>>

\* C1: a run made while the results of a run with the same seed, step size
\* and sample count are on screen (Run pressed again, no slider touched)
\* produces the same samples, the same trajectory and the same acceptance
\* rate: the second run starts from a new generator
C1_Determinism ==
    [][(HasResults /\ acceptance' # <<>>
        /\ seed' = seed /\ stepSize' = stepSize /\ numSamples' = numSamples)
       => (samples' = samples /\ path' = path /\ acceptance' = acceptance)]_vars

\* a run with accepted and rejected steps is on screen, to be repeated
C1_Witness ==
    /\ HasResults
    /\ Len(samples) = numSamples
    /\ acceptance[1] > 0 /\ acceptance[1] < acceptance[2]

\* C2: whatever the seed, the step size and the number of steps made, the
\* chain's sigma is strictly positive, and so is the sigma of every recorded
\* sample and trajectory point; a proposal with sigma <= 0 is never accepted
C2_SigmaPositive ==
    /\ chain.st.sig > 0 /\ isFinite(chain.st.sig)
    /\ \A k \in 1..Len(chain.st.newSamples) : chain.st.newSamples[k].y > 0
    /\ \A k \in 1..Len(chain.st.trajectory) : chain.st.trajectory[k].y > 0
    /\ \A k \in 1..Len(chain.st.log) :
          /\ chain.st.log[k].sig > 0
          /\ chain.st.log[k].sigProp <= 0 => ~chain.st.log[k].acc

\* a step near the boundary proposed a sigma <= 0 and the chain recorded it
C2_Witness ==
    /\ Len(chain.st.newSamples) >= 1
    /\ \E k \in 1..Len(chain.st.log) : chain.st.log[k].sigProp <= 0

(***************************************************************************)
(* The application with the sliders of the Normal-Normal parameters        *)
(***************************************************************************)
\* the slider positions followed, in tenths
PriorMuChoices == {-50, 0, 10}
PriorSigmaChoices == {5, 10}
DataMuChoices == {-13, 25, 50}
DataSigmaChoices == {8, 10}

outsideNormal == <<activeChapter, dataVars, mcmcVars, betaVars, chain, gens, logGrid, calc, trace>>

\* the mean slider calling onChange(parseFloat(value), 1): the sd it hands on
\* is the default, not the prop
SetPriorMuDefaultSigma ==
    /\ activeChapter = "model_building"
    /\ \E v \in PriorMuChoices \ {priorMu} : priorMu' = v
    /\ priorSigma' = 10
    /\ UNCHANGED <<outsideNormal, dataMu, dataSigma>>

\* InteractivePriorSlider, the mean: onChange(parseFloat(value), sigma)
SetPriorMu ==
    /\ activeChapter = "model_building"
    /\ \E v \in PriorMuChoices \ {priorMu} : priorMu' = v
    /\ priorSigma' = priorSigma
    /\ UNCHANGED <<outsideNormal, dataMu, dataSigma>>

\* InteractivePriorSlider, the standard deviation: onChange(mu, parseFloat(value))
SetPriorSigma ==
    /\ activeChapter = "model_building"
    /\ \E v \in PriorSigmaChoices \ {priorSigma} : priorSigma' = v
    /\ priorMu' = priorMu
    /\ UNCHANGED <<outsideNormal, dataMu, dataSigma>>

\* ChapterInference, the data mean: setDataMu(parseFloat(value))
SetDataMu ==
    /\ activeChapter = "inference"
    /\ \E v \in DataMuChoices \ {dataMu} : dataMu' = v
    /\ UNCHANGED <<outsideNormal, priorMu, priorSigma, dataSigma>>

\* ChapterInference, the data uncertainty: setDataSigma(parseFloat(value))
SetDataSigma ==
    /\ activeChapter = "inference"
    /\ \E v \in DataSigmaChoices \ {dataSigma} : dataSigma' = v
    /\ UNCHANGED <<outsideNormal, priorMu, priorSigma, dataMu>>

NextNormal == Navigate \/ SetPriorMu \/ SetPriorSigma \/ SetDataMu \/ SetDataSigma

SpecNormal == Init /\ [][NextNormal]_vars

(***************************************************************************)
(* The normalisation of the contour grid, applied to grids of log          *)
(* densities with cells that are not finite                                *)
(***************************************************************************)
GridValues == {NegInf, PosInf, NaN, -50000, 0, 12345}
GridStrides == {1, 2, 7}

\* a cell whose number k = i * GRID_STEPS + j is a multiple of m holds v1,
\* the cell after it v2, every other cell 0
GridPattern(m, v1, v2) ==
    [i \in 0..(GRID_STEPS - 1) |->
        [j \in 0..(GRID_STEPS - 1) |->
            IF (i * GRID_STEPS + j) % m = 0 THEN v1
            ELSE IF (i * GRID_STEPS + j) % m = 1 THEN v2 ELSE 0]]

InitGrid ==
    /\ DataInit /\ AppInit /\ McmcMounted(<<>>) /\ BetaMounted /\ TraceUnmounted
    /\ chain = <<>> /\ gens = <<>> /\ calc = <<>>
    /\ \/ logGrid = <<>>
       \/ \E m \in GridStrides, v1 \in GridValues, v2 \in GridValues :
             logGrid = GridPattern(m, v1, v2)

\* the first pass of the useMemo callback over the program's own grid
FirstPass ==
    /\ logGrid = <<>>
    /\ logGrid' = GridRaw
    /\ UNCHANGED <<activeChapter, dataVars, mcmcVars, betaVars, normalVars, chain, gens, calc, trace>>

\* the second pass of the useMemo callback
Normalise ==
    /\ logGrid # <<>> /\ grid = <<>>
    /\ grid' = NormaliseGrid(logGrid)
    /\ UNCHANGED <<activeChapter, dataVars, betaVars, normalVars, chain, gens, logGrid, calc, trace,
                   samples, path, running, numSamples, stepSize, seed, acceptance,
                   rng, chainLog>>

NextGrid == FirstPass \/ Normalise

SpecGrid == InitGrid /\ [][NextGrid]_vars

\* an unsigned 32-bit number as its two 16-bit halves, and sums and
\* products of such numbers modulo 2^32
U32(s) == <<(s \div 65536) % 65536, s % 65536>>
U32Add(x, y) == <<(x[1] + y[1] + (x[2] + y[2]) \div 65536) % 65536, (x[2] + y[2]) % 65536>>
RECURSIVE U32Times(_, _)
U32Times(x, m) ==
    IF m = 0 THEN <<0, 0>>
    ELSE IF m % 2 = 1 THEN U32Add(U32Times(U32Add(x, x), m \div 2), x)
    ELSE U32Times(U32Add(x, x), m \div 2)

\* (1664525 * prev + 1013904223) modulo 2^32, read as a signed 32-bit value
LcgReference(prev) ==
    LET r == U32Add(U32Times(U32(prev), 1664525), U32(1013904223))
    IN  IF r[1] >= 32768 THEN (r[1] - 65536) * 65536 + r[2] ELSE r[1] * 65536 + r[2]

\* (1664525 * |prev| + 1013904223) divided by 2^32, rounded down: the
\* intermediate value is below 2^53 when this is below 2^21
LcgProductHigh(prev) ==
    LET l == IF prev >= 0 THEN prev % 65536 ELSE (65536 - (prev % 65536)) % 65536
        h == IF prev >= 0 THEN prev \div 65536
             ELSE IF l = 0 THEN -(prev \div 65536) ELSE -(prev \div 65536) - 1
        mid == h * 26125 + l * 25 + 15470 + (l * 26125 + 62303) \div 65536
    IN  h * 25 + mid \div 65536

\* the states a generator went through are those of the recurrence and the
\* values it returned are in [0, 1)
LcgStream(first, out) ==
    \A k \in 1..Len(out) :
        LET prev == IF k = 1 THEN first ELSE out[k - 1]
        IN  /\ out[k] = LcgReference(prev)
            /\ LcgProductHigh(prev) < 2^21
            /\ Unit(out[k]) >= 0 /\ Unit(out[k]) < Scale

\* C3: after every call the state of a generator is 1664525 * previous +
\* 1013904223 modulo 2^32 as a signed 32-bit value, the intermediate value
\* stays below 2^53, the value returned lies in [0, 1), and the generator of
\* the sampler and the generator of the dataset, created from one seed,
\* return the same stream call for call
C3_Generator ==
    /\ LcgStream(gens.seed, gens.gout)
    /\ LcgStream(gens.seed, gens.dout)
    /\ \A k \in 1..Len(gens.gout) :
          k <= Len(gens.dout) =>
             /\ gens.gout[k] = gens.dout[k]
             /\ Unit(gens.gout[k]) = Unit(gens.dout[k])

\* both generators were called, and a state with the sign bit set was returned
C3_Witness ==
    /\ Len(gens.gout) >= 2 /\ Len(gens.dout) >= 2
    /\ \E k \in 1..Len(gens.gout) : gens.gout[k] < 0

\* the number of successes in a list of observations
RECURSIVE CountTrue(_)
CountTrue(obs) ==
    IF obs = <<>> THEN 0 ELSE (IF Head(obs) THEN 1 ELSE 0) + CountTrue(Tail(obs))

\* C4: with k successes among the n observations made since the prior
\* (alpha, beta) was chosen the posterior is (alpha + k, beta + n - k); a
\* Success press adds one to the first parameter only and a Failure press
\* one to the second only, in the very next state; prior (1, 1) with three
\* successes and one failure in any order gives (4, 2) and the mean 4/6
C4_Posterior ==
    /\ [](/\ postA = priorA + CountTrue(observations)
          /\ postB = priorB + Len(observations) - CountTrue(observations)
          /\ (priorPreset = 0 /\ Len(observations) = 4 /\ CountTrue(observations) = 3)
                => (/\ postA = 4 /\ postB = 2
                    /\ posteriorMean = FDiv(4 * Scale, 6 * Scale)))
    /\ [][/\ AddSuccess => (postA' = postA + 1 /\ postB' = postB)
          /\ AddFailure => (postA' = postA /\ postB' = postB + 1)]_vars

\* three successes and a failure were entered on the prior (1, 1)
C4_Witness ==
    /\ priorPreset = 0 /\ Len(observations) = 4 /\ CountTrue(observations) = 3
    /\ postA = 4 /\ postB = 2

GridIndex == 0..(GRID_STEPS - 1)

\* C6: every cell of the normalised grid is a finite number in [0, 1], a cell
\* whose log density is not finite is 0, and the largest cell is exactly 1
\* when some log density is finite and 0 when none is
C6_Grid ==
    grid # <<>> =>
       /\ \A i \in GridIndex, j \in GridIndex :
             /\ isFinite(grid[i][j]) /\ grid[i][j] >= 0 /\ grid[i][j] <= Scale
             /\ ~isFinite(logGrid[i][j]) => grid[i][j] = 0
       /\ IF \E i \in GridIndex, j \in GridIndex : isFinite(logGrid[i][j])
          THEN \E i \in GridIndex, j \in GridIndex : grid[i][j] = Scale
          ELSE \A i \in GridIndex, j \in GridIndex : grid[i][j] = 0

\* a grid with finite and other log densities was normalised: it has a 1, a
\* value strictly between 0 and 1, and a 0 where the log density is not finite
C6_Witness ==
    /\ grid # <<>>
    /\ \E i \in GridIndex, j \in GridIndex : ~isFinite(logGrid[i][j]) /\ grid[i][j] = 0
    /\ \E i \in GridIndex, j \in GridIndex : grid[i][j] = Scale
    /\ \E i \in GridIndex, j \in GridIndex : grid[i][j] > 0 /\ grid[i][j] < Scale

\* the steps of the last run whose proposal was accepted
AcceptedSteps == {k \in 1..Len(chainLog) : chainLog[k].acc}

\* C7: after a run the acceptance rate is the number of accepted steps among
\* all numSamples + 100 steps, burn-in included, over numSamples + 100; it
\* lies in [0, 1] and its denominator is not the number of retained samples
C7_Acceptance ==
    HasResults =>
       /\ Len(chainLog) = numSamples + 100
       /\ acceptance = <<Cardinality(AcceptedSteps), numSamples + 100>>
       /\ 0 <= acceptance[1] /\ acceptance[1] <= acceptance[2] /\ acceptance[2] > 0
       /\ acceptance[2] # Len(samples)

\* a run with accepted steps in the burn-in and after it, and rejected steps
C7_Witness ==
    /\ HasResults
    /\ \E k \in AcceptedSteps : k <= 100
    /\ \E k \in AcceptedSteps : k > 100
    /\ acceptance[1] < acceptance[2]

\* C8: a run discards the first 100 steps whatever the sample count and
\* retains exactly numSamples positions: the position of the chain after
\* each of the steps 101 .. 100 + numSamples, in order, a rejected step
\* repeating the position before it
C8_Samples ==
    HasResults =>
       /\ Len(samples) = numSamples
       /\ \A k \in 1..Len(samples) :
             /\ 100 + k <= Len(chainLog)
             /\ samples[k] = Point(chainLog[100 + k].mu, chainLog[100 + k].sig)
             /\ (k > 1 /\ ~chainLog[100 + k].acc) => samples[k] = samples[k - 1]
       /\ \A k \in 2..Len(chainLog) :
             ~chainLog[k].acc => /\ chainLog[k].mu = chainLog[k - 1].mu
                                 /\ chainLog[k].sig = chainLog[k - 1].sig

\* a run with a sample count that is not the default retained a rejected and
\* an accepted step
C8_Witness ==
    /\ HasResults /\ numSamples # DEFAULT_NUM_SAMPLES /\ Len(samples) = numSamples
    /\ \E k \in 2..Len(samples) : ~chainLog[100 + k].acc /\ samples[k] = samples[k - 1]
    /\ \E k \in 2..Len(samples) : chainLog[100 + k].acc /\ samples[k] # samples[k - 1]

\* C9: the trajectory kept for drawing the path is exactly the first
\* min(80, numSamples) retained samples, with no starting or burn-in position
C9_Trajectory ==
    HasResults =>
       path = SubSeq(samples, 1, IF numSamples < 80 THEN numSamples ELSE 80)

\* C10: the dataset of 80 values and its two statistics are what the module
\* computed from SEED_DATA when it loaded, and no slider, run or change of
\* chapter writes them, whatever the seed of the sampler
C10_DataFrozen ==
    /\ [](/\ Len(DATA) = 80
          /\ DATA = genData(SEED_DATA, N_OBS, TRUE_MU, TRUE_SIG))
    /\ [][/\ DATA' = DATA
          /\ SUM_LOG_X' = SUM_LOG_X
          /\ SUM_LOG_X_SQ' = SUM_LOG_X_SQ]_vars

\* the sampler ran with a seed that is not the seed of the dataset
C10_Witness ==
    /\ HasResults /\ seed # SEED_DATA /\ rng # <<>>
    /\ activeChapter = "inference"

\* C5: on the inference chapter the posterior mean and standard deviation of
\* the statistics panel (ChapterInference) are the numbers the curve is drawn
\* from (PosteriorUpdateVisualization): one function of the four parameters
C5_SameFunction ==
    activeChapter = "inference" =>
       /\ F64Eq(InfPosteriorMu, VisPosteriorMu)
       /\ F64Eq(InfPosteriorSigma, VisPosteriorSigma)

(***************************************************************************)
(* The densities of DistributionComparer and BetaBinomialUpdater, each     *)
(* returning its value v together with the arguments handed to Math.log    *)
(* during the call (logs), in the order of evaluation                      *)
(***************************************************************************)
SQRT_TWO_PI == Sqrt(TwoPi)

\* normalPDF(x, mu, sigma)
normalPDF(x, mu, sigma) ==
    LET s == FMax(sigma, 500)
        z == FDiv(FSub(x, mu), s)
    IN  [v |-> FMul(FDiv(Scale, FMul(s, SQRT_TWO_PI)), Exp(FMul(-5000, FMul(z, z)))),
         coefScale |-> s, expScale |-> s,
         divs |-> <<FMul(s, SQRT_TWO_PI), s>>, logs |-> <<>>]

\* lognormalPDF(x, mu, sigma)
lognormalPDF(x, mu, sigma) ==
    IF FLe(x, 0) THEN [v |-> 0, divs |-> <<>>, logs |-> <<>>]
    ELSE LET s == FMax(sigma, 500)
             z == FDiv(FSub(Log(x), mu), s)
         IN  [v |-> FMul(FDiv(Scale, FMul(FMul(x, s), SQRT_TWO_PI)),
                         Exp(FMul(-5000, FMul(z, z)))),
              coefScale |-> s, expScale |-> s,
              divs |-> <<FMul(FMul(x, s), SQRT_TWO_PI), s>>, logs |-> <<x>>]

\* pdf whose exponent divides by sigma itself
pdfRawExponent(x, mu, sigma) ==
    LET coef == FDiv(Scale, FMul(FMax(sigma, 1000), SQRT_TWO_PI))
        z == FDiv(FSub(x, mu), sigma)
        exponent == FMul(-5000, FMul(z, z))
    IN  [v |-> FMul(coef, Exp(exponent)),
         coefScale |-> FMax(sigma, 1000), expScale |-> sigma,
         divs |-> <<FMul(FMax(sigma, 1000), SQRT_TWO_PI), sigma>>, logs |-> <<>>]
\* pdf(x) of InteractivePriorSlider, for the props mu and sigma
pdf(x, mu, sigma) ==
    LET coef == FDiv(Scale, FMul(FMax(sigma, 1000), SQRT_TWO_PI))
        z == FDiv(FSub(x, mu), FMax(sigma, 1000))
        exponent == FMul(-5000, FMul(z, z))
    IN  [v |-> FMul(coef, Exp(exponent)),
         coefScale |-> FMax(sigma, 1000), expScale |-> FMax(sigma, 1000),
         divs |-> <<FMul(FMax(sigma, 1000), SQRT_TWO_PI), FMax(sigma, 1000)>>,
         logs |-> <<>>]

\* pdf(x) of getPath(mu, sigma) of PosteriorUpdateVisualization
pdfPosteriorUpdate(x, mu, sigma) ==
    LET coef == FDiv(Scale, FMul(FMax(sigma, 1000), SQRT_TWO_PI))
        z == FDiv(FSub(x, mu), FMax(sigma, 1000))
        exp == FMul(-5000, FMul(z, z))
    IN  [v |-> FMul(coef, Exp(exp)),
         coefScale |-> FMax(sigma, 1000), expScale |-> FMax(sigma, 1000),
         divs |-> <<FMul(FMax(sigma, 1000), SQRT_TWO_PI), FMax(sigma, 1000)>>,
         logs |-> <<>>]

\* pdf(x) of getPath(m, s) of PriorPredictiveVisualization
pdfPriorPredictive(x, m, s) ==
    LET coef == FDiv(Scale, FMul(FMax(s, 1000), SQRT_TWO_PI))
        z == FDiv(FSub(x, m), FMax(s, 1000))
        exp == FMul(-5000, FMul(z, z))
    IN  [v |-> FMul(coef, Exp(exp)),
         coefScale |-> FMax(s, 1000), expScale |-> FMax(s, 1000),
         divs |-> <<FMul(FMax(s, 1000), SQRT_TWO_PI), FMax(s, 1000)>>,
         logs |-> <<>>]

\* the coefficients c of logGamma
LogGammaC == <<761801, -865053, 240141, -12317, 12, 0>>

\* ser after the iterations j < n of the for loop of logGamma
RECURSIVE LogGammaSer(_, _)
LogGammaSer(z, n) ==
    IF n = 0 THEN Scale
    ELSE FAdd(LogGammaSer(z, n - 1), FDiv(LogGammaC[n], FAdd(z, n * Scale)))

\* the argument of the second Math.log of logGamma
LogGammaArg(z) == FDiv(FMul(25066, LogGammaSer(z, 6)), z)

\* logGamma(z)
logGamma(z) ==
    LET tmp == FSub(FAdd(z, 55000), FMul(FAdd(z, 5000), Log(FAdd(z, 55000))))
    IN  FAdd(FNeg(tmp), Log(LogGammaArg(z)))

\* the arguments logGamma(z) hands to Math.log
logGammaLogs(z) == <<FAdd(z, 55000), LogGammaArg(z)>>

\* logBeta(a, b)
logBeta(a, b) == FSub(FAdd(logGamma(a), logGamma(b)), logGamma(FAdd(a, b)))

\* betaPDF(x, a, b)
betaPDFOpenBelow(x, a, b) ==
    IF FLt(x, 0) \/ FLe(Scale, x) THEN [v |-> 0, logs |-> <<>>]
    ELSE [v |-> Exp(FSub(FAdd(FMul(FSub(a, Scale), Log(x)),
                              FMul(FSub(b, Scale), Log(FSub(Scale, x)))),
                         logBeta(a, b))),
          logs |-> <<x, FSub(Scale, x)>> \o logGammaLogs(a) \o logGammaLogs(b)
                      \o logGammaLogs(FAdd(a, b))]
betaPDF(x, a, b) ==
    IF FLe(x, 0) \/ FLe(Scale, x) THEN [v |-> 0, logs |-> <<>>]
    ELSE [v |-> Exp(FSub(FAdd(FMul(FSub(a, Scale), Log(x)),
                              FMul(FSub(b, Scale), Log(FSub(Scale, x)))),
                         logBeta(a, b))),
          logs |-> <<x, FSub(Scale, x)>> \o logGammaLogs(a) \o logGammaLogs(b)
                      \o logGammaLogs(FAdd(a, b))]

(***************************************************************************)
(* The densities called on their own: one call per behaviour, on a point   *)
(* x and two parameters p and q drawn from values inside, on the edge of   *)
(* and outside every support, the infinities and NaN included              *)
(***************************************************************************)
DensityXs == {NegInf, -30000, -1, 0, 1, 475, 5000, Scale - 1, Scale, Scale + 1,
              30000, PosInf, NaN}
DensityParams == {NegInf, -10000, 0, 500, 6000, 20000, PosInf, NaN}

InitDensity ==
    /\ DataInit /\ AppInit /\ McmcMounted(<<>>) /\ BetaMounted /\ TraceUnmounted
    /\ chain = <<>> /\ gens = <<>> /\ logGrid = <<>>
    /\ \E x \in DensityXs, p \in DensityParams, q \in DensityParams :
          calc = [x |-> x, p |-> p, q |-> q, fn |-> "", out |-> <<>>]

outsideCalc == <<activeChapter, dataVars, mcmcVars, betaVars, normalVars,
                 chain, gens, logGrid, trace>>

\* lognormalPDF(x, p, q)
CallLognormalPDF ==
    /\ calc.fn = ""
    /\ calc' = [calc EXCEPT !.fn = "lognormalPDF",
                            !.out = lognormalPDF(calc.x, calc.p, calc.q)]
    /\ UNCHANGED outsideCalc

\* betaPDF(x, p, q)
CallBetaPDF ==
    /\ calc.fn = ""
    /\ calc' = [calc EXCEPT !.fn = "betaPDF",
                            !.out = betaPDF(calc.x, calc.p, calc.q)]
    /\ UNCHANGED outsideCalc

\* normalPDF(x, p, q)
CallNormalPDF ==
    /\ calc.fn = ""
    /\ calc' = [calc EXCEPT !.fn = "normalPDF",
                            !.out = normalPDF(calc.x, calc.p, calc.q)]
    /\ UNCHANGED outsideCalc

\* pdf(x) of InteractivePriorSlider with mu = p and sigma = q
CallPdf ==
    /\ calc.fn = ""
    /\ calc' = [calc EXCEPT !.fn = "pdf", !.out = pdf(calc.x, calc.p, calc.q)]
    /\ UNCHANGED outsideCalc

\* pdf(x) of PosteriorUpdateVisualization within getPath(p, q)
CallPdfPosteriorUpdate ==
    /\ calc.fn = ""
    /\ calc' = [calc EXCEPT !.fn = "pdfPosteriorUpdate",
                            !.out = pdfPosteriorUpdate(calc.x, calc.p, calc.q)]
    /\ UNCHANGED outsideCalc

\* pdf(x) of PriorPredictiveVisualization within getPath(p, q)
CallPdfPriorPredictive ==
    /\ calc.fn = ""
    /\ calc' = [calc EXCEPT !.fn = "pdfPriorPredictive",
                            !.out = pdfPriorPredictive(calc.x, calc.p, calc.q)]
    /\ UNCHANGED outsideCalc

\* TARGET_LOG_PROB(p, q)
CallTargetLogProb ==
    /\ calc.fn = ""
    /\ calc' = [calc EXCEPT !.fn = "TARGET_LOG_PROB",
                            !.out = [v |-> TARGET_LOG_PROB(calc.p, calc.q)]
                                       @@ TargetLogProbTrace(calc.p, calc.q)]
    /\ UNCHANGED outsideCalc

NextDensity ==
    \/ CallLognormalPDF \/ CallBetaPDF \/ CallTargetLogProb
    \/ CallNormalPDF \/ CallPdf \/ CallPdfPosteriorUpdate \/ CallPdfPriorPredictive
SpecDensity == InitDensity /\ [][NextDensity]_vars

\* C11: a density evaluated outside its support is the number 0 and no
\* logarithm was taken: lognormalPDF at every x <= 0 and betaPDF at every
\* x <= 0 and every x >= 1, whatever the two parameters are
C11_OutsideSupport ==
    /\ calc.fn = "lognormalPDF" /\ FLe(calc.x, 0)
          => calc.out.v = 0 /\ calc.out.logs = <<>>
    /\ calc.fn = "betaPDF" /\ (FLe(calc.x, 0) \/ FLe(Scale, calc.x))
          => calc.out.v = 0 /\ calc.out.logs = <<>>

\* betaPDF was called at x = 0 with a NaN parameter and returned 0
C11_Witness ==
    /\ calc.fn = "betaPDF" /\ calc.x = 0 /\ IsNaN(calc.p)
    /\ calc.out.v = 0 /\ calc.out.logs = <<>>

\* C12: TARGET_LOG_PROB(mu, sigma) is negative infinity for every sigma <= 0,
\* whatever mu is, and the call takes no logarithm and divides by nothing
C12_NonPositiveSigma ==
    calc.fn = "TARGET_LOG_PROB" /\ FLe(calc.q, 0)
       => calc.out.v = NegInf /\ calc.out.logs = <<>> /\ calc.out.divs = <<>>

\* TARGET_LOG_PROB was called with sigma = 0 and a finite mu
C12_Witness ==
    /\ calc.fn = "TARGET_LOG_PROB" /\ calc.q = 0 /\ calc.p = 6000
    /\ calc.out.v = NegInf

\* the smallest positive x at which DistributionComparer evaluates
\* lognormalPDF: -3 + (53 / 400) * 23
MIN_LOGNORMAL_X == 475

\* the floor of the scale of each density
ScaleFloor(fn) == IF fn \in {"normalPDF", "lognormalPDF"} THEN 500 ELSE 1000

\* the calls of the Normal and LogNormal densities that divide: finite x and
\* mu, any sigma, and for lognormalPDF an x of its support the program uses
NormalCalls ==
    /\ calc.fn \in {"normalPDF", "lognormalPDF", "pdf", "pdfPosteriorUpdate",
                    "pdfPriorPredictive"}
    /\ isFinite(calc.x) /\ isFinite(calc.p) /\ ~IsNaN(calc.q)
    /\ calc.fn = "lognormalPDF" => calc.x >= MIN_LOGNORMAL_X

\* C13: every Normal and LogNormal density evaluation divides by
\* max(sigma, floor) with floor 0.05 in DistributionComparer and 0.1 in the
\* other builders: for every sigma, zero and negative ones included, each
\* divisor is positive, the result is finite and not negative, and the
\* coefficient and the exponent use the same clamped scale
C13_ClampedScale ==
    NormalCalls =>
       /\ calc.out.coefScale = FMax(calc.q, ScaleFloor(calc.fn))
       /\ calc.out.expScale = calc.out.coefScale
       /\ calc.out.coefScale >= ScaleFloor(calc.fn)
       /\ \A k \in 1..Len(calc.out.divs) : FLt(0, calc.out.divs[k])
       /\ isFinite(calc.out.v) /\ calc.out.v >= 0

\* pdf was evaluated at its mean with sigma = 0: the result is the peak of
\* the density at the floor scale 0.1
C13_Witness ==
    /\ calc.fn = "pdf" /\ calc.q = 0 /\ calc.x = 0 /\ calc.p = 0
    /\ calc.out.v > 3 * Scale

(***************************************************************************)
(* More of binary64: -, <, Math.min, Math.exp, Math.PI and toFixed(1)      *)
(***************************************************************************)
\* -x
F64Neg(x) == [x EXCEPT !.neg = ~x.neg]

\* x - y
F64Sub(x, y) == F64Add(x, F64Neg(y))

\* |x| < |y|
F64MagLess(x, y) ==
    IF y.m = <<>> THEN FALSE
    ELSE IF x.m = <<>> THEN TRUE
    ELSE IF x.e # y.e THEN x.e < y.e
    ELSE NLess(x.m, y.m)

\* x < y
F64Less(x, y) ==
    IF x.m = <<>> /\ y.m = <<>> THEN FALSE
    ELSE IF x.m = <<>> THEN ~y.neg
    ELSE IF y.m = <<>> THEN x.neg
    ELSE IF x.neg # y.neg THEN x.neg
    ELSE IF x.neg THEN F64MagLess(y, x)
    ELSE F64MagLess(x, y)

\* Math.min(x, y) and Math.max(x, y)
F64Min(x, y) == IF F64Less(y, x) THEN y ELSE x
F64Max(x, y) == IF F64Less(x, y) THEN y ELSE x

\* the natural number a limb sequence stands for
RECURSIVE NToInt(_)
NToInt(a) == IF a = <<>> THEN 0 ELSE Head(a) + Limb * NToInt(Tail(a))

\* Math.PI
F64Pi == [neg |-> FALSE, m |-> <<11544, 10376, 2029, 201>>, e |-> -51]

\* Math.exp works on multiples of 2^-ExpBits
ExpBits == 90
ExpTerms == 26

\* ln 2 in units of 2^-ExpBits, rounded down
Ln2Fixed == <<3790, 24143, 30618, 31289, 1533, 22713>>

\* term j of the series of e^r is added: st = [k, t, s] holds the number k of
\* terms added, the last term t and the sum s, r in units of 2^-ExpBits
ExpStep(r, st) ==
    LET t == NTrim(NDivSmall(NShr(NMul(st.t, r), ExpBits), st.k).q)
    IN  [k |-> st.k + 1, t |-> t, s |-> NAdd(st.s, t)]

\* the terms st.k .. n - 1
RECURSIVE ExpLoop(_, _, _)
ExpLoop(r, st, n) ==
    IF st.k >= n THEN st
    ELSE IF st.k + 1 = n THEN ExpStep(r, st)
    ELSE ExpLoop(r, ExpLoop(r, st, (st.k + n) \div 2), n)

\* e^r in units of 2^-ExpBits for 0 <= r < ln 2
ExpSeries(r) ==
    ExpLoop(r, [k |-> 1, t |-> NShl(<<1>>, ExpBits), s |-> NShl(<<1>>, ExpBits)],
            ExpTerms + 1).s

\* the double nearest to n * 2^e, n being rounded down from the exact value,
\* on the grid of the subnormal numbers when it is below 2^-1022
F64RoundTiny(n, e) ==
    LET sh == -1074 - e
        q == NShr(n, sh)
        up == NBit(n, sh - 1) = 1
    IN  IF e + NBitLen(n) - MantissaBits >= -1074 THEN F64Round(FALSE, n, e, TRUE)
        ELSE F64Round(FALSE, IF up THEN NAdd(q, <<1>>) ELSE q, -1074, FALSE)

\* Math.exp(x): the double nearest to e^x
F64Exp(x) ==
    LET a == IF x.e + ExpBits >= 0 THEN NShl(x.m, x.e + ExpBits)
             ELSE NShr(x.m, -(x.e + ExpBits))
        d == NDivMod(a, Ln2Fixed)
        k == NToInt(d.q)
    IN  IF x.m = <<>> THEN F64Int(1)
        ELSE IF ~x.neg THEN F64Round(FALSE, ExpSeries(d.r), k - ExpBits, TRUE)
        ELSE IF d.r = <<>> THEN F64RoundTiny(NShl(<<1>>, ExpBits), -k - ExpBits)
        ELSE F64RoundTiny(ExpSeries(NSub(Ln2Fixed, d.r)), -(k + 1) - ExpBits)

\* x.toFixed(1): the sign printed and the digits as a number of tenths, the
\* integer nearest to 10 * |x|, the larger one of two
F64ToFixed1(x) ==
    LET t == NMulC(x.m, 10, 0)
        n == IF x.e >= 0 THEN NShl(t, x.e)
             ELSE IF NBit(t, -x.e - 1) = 1 THEN NAdd(NShr(t, -x.e), <<1>>)
             ELSE NShr(t, -x.e)
    IN  [neg |-> x.neg /\ x.m # <<>>, tenths |-> NToInt(n)]

(***************************************************************************)
(* The curve builders on binary64 numbers. A vertex of a path that went    *)
(* through toFixed(1) has its coordinates in tenths                        *)
(***************************************************************************)
\* the number toFixed(1) printed, in tenths
Coord(f) == IF f.neg THEN -f.tenths ELSE f.tenths

\* the literals 0.05, 0.1 and -0.5 and Math.sqrt(2 * Math.PI)
F64Floor05 == F64Div(F64Int(5), F64Int(100))
F64Floor1 == Tenths(1)
F64MinusHalf == F64Div(F64Int(-1), F64Int(2))
F64SqrtTwoPi == F64Sqrt(F64Mul(F64Int(2), F64Pi))

\* normalPDF(x, mu, sigma) of DistributionComparer
normalPDF64(x, mu, sigma) ==
    LET s == F64Max(sigma, F64Floor05)
        z == F64Div(F64Sub(x, mu), s)
    IN  F64Mul(F64Div(F64Int(1), F64Mul(s, F64SqrtTwoPi)),
               F64Exp(F64Mul(F64MinusHalf, F64Square(z))))

\* the vertex build pushes at iteration i, with an sx that leaves out the
\* subtraction of xMin
BuildVertexFromZero(a, i) ==
    LET x == F64Add(a.xMin, F64Mul(F64Div(F64Int(i), F64Int(a.N)),
                                   F64Sub(a.xMax, a.xMin)))
        y == normalPDF64(x, a.mu, a.sigma)
        sx == F64Mul(F64Div(x, F64Sub(a.xMax, a.xMin)), a.w)
        sy == F64Sub(a.h, F64Mul(F64Div(F64Min(y, a.yMax), a.yMax),
                                 F64Sub(a.h, F64Int(20))))
    IN  [cmd |-> IF i = 0 THEN "M" ELSE "L",
         x |-> Coord(F64ToFixed1(sx)), y |-> Coord(F64ToFixed1(sy))]
\* build: the vertex the body of the for loop pushes at iteration i, for the
\* arguments a of the call, fn being x => normalPDF(x, a.mu, a.sigma)
BuildVertex(a, i) ==
    LET x == F64Add(a.xMin, F64Mul(F64Div(F64Int(i), F64Int(a.N)),
                                   F64Sub(a.xMax, a.xMin)))
        y == normalPDF64(x, a.mu, a.sigma)
        sx == F64Mul(F64Div(F64Sub(x, a.xMin), F64Sub(a.xMax, a.xMin)), a.w)
        sy == F64Sub(a.h, F64Mul(F64Div(F64Min(y, a.yMax), a.yMax),
                                 F64Sub(a.h, F64Int(20))))
    IN  [cmd |-> IF i = 0 THEN "M" ELSE "L",
         x |-> Coord(F64ToFixed1(sx)), y |-> Coord(F64ToFixed1(sy))]

\* build: what the push after the loop adds, L w h L 0 h Z
BuildClosing(a) ==
    <<[cmd |-> "L", x |-> Coord(F64ToFixed1(a.w)), y |-> Coord(F64ToFixed1(a.h))],
      [cmd |-> "L", x |-> 0, y |-> Coord(F64ToFixed1(a.h))],
      [cmd |-> "Z"]>>

(***************************************************************************)
(* build called on its own, one iteration of its loop per step: on the     *)
(* arguments of DistributionComparer and on other domains, surfaces and    *)
(* vertex counts                                                           *)
(***************************************************************************)
X_MIN == -3
X_MAX == 20
BUILD_W == 800
BUILD_H == 260
BUILD_N == 300

BuildDomains == {<<X_MIN, X_MAX>>, <<0, 1>>, <<2, 7>>}
BuildWidths == {BUILD_W, 3}
BuildCounts == {1, 2, 7}
BuildDensities == {<<0, 10>>, <<35, 20>>}

InitBuild ==
    /\ DataInit /\ AppInit /\ McmcMounted(<<>>) /\ BetaMounted /\ TraceUnmounted
    /\ chain = <<>> /\ gens = <<>> /\ logGrid = <<>>
    /\ \E d \in BuildDomains, w \in BuildWidths, n \in BuildCounts \cup {BUILD_N},
          f \in BuildDensities :
          /\ n = BUILD_N => d = <<X_MIN, X_MAX>> /\ w = BUILD_W /\ f = <<35, 20>>
          /\ calc = [d |-> d, w |-> w, h |-> BUILD_H, N |-> n, yMax |-> 5, f |-> f,
                     fn |-> "build", i |-> 0, pts |-> <<>>, closed |-> FALSE]

\* the arguments of the call of build
BuildArgs ==
    [xMin |-> F64Int(calc.d[1]), xMax |-> F64Int(calc.d[2]), yMax |-> Tenths(calc.yMax),
     w |-> F64Int(calc.w), h |-> F64Int(calc.h), N |-> calc.N,
     mu |-> Tenths(calc.f[1]), sigma |-> Tenths(calc.f[2])]

\* build: one iteration of the for loop
BuildIterate ==
    /\ calc.fn = "build" /\ calc.i <= calc.N
    /\ calc' = [calc EXCEPT !.i = @ + 1,
                            !.pts = Append(@, BuildVertex(BuildArgs, calc.i))]
    /\ UNCHANGED outsideCalc

\* build: the push after the loop and the return
BuildReturn ==
    /\ calc.fn = "build" /\ calc.i = calc.N + 1 /\ ~calc.closed
    /\ calc' = [calc EXCEPT !.closed = TRUE, !.pts = @ \o BuildClosing(BuildArgs)]
    /\ UNCHANGED outsideCalc

NextBuild == BuildIterate \/ BuildReturn
SpecBuild == InitBuild /\ [][NextBuild]_vars

\* the path build returned: N + 1 curve vertices, the first the only move-to,
\* with X not decreasing from 0 to w, then (w, h), (0, h) and the close command
ClosedRegion ==
    /\ Len(calc.pts) = calc.N + 4
    /\ \A k \in 1..(calc.N + 1) : calc.pts[k].cmd = IF k = 1 THEN "M" ELSE "L"
    /\ \A k \in 1..calc.N : calc.pts[k].x <= calc.pts[k + 1].x
    /\ calc.pts[1].x = 0 /\ calc.pts[calc.N + 1].x = 10 * calc.w
    /\ calc.pts[calc.N + 2] = [cmd |-> "L", x |-> 10 * calc.w, y |-> 10 * calc.h]
    /\ calc.pts[calc.N + 3] = [cmd |-> "L", x |-> 0, y |-> 10 * calc.h]
    /\ calc.pts[calc.N + 4] = [cmd |-> "Z"]

\* C14 as stated: build emits N + 1 curve vertices, vertex i at the surface
\* X = (i / N) * w, the first one the only move-to, X not decreasing from 0
\* to w, then the two closing vertices (w, h) and (0, h) and a close command
C14_Build ==
    calc.fn = "build" /\ calc.closed =>
       /\ ClosedRegion
       /\ \A i \in 0..calc.N : calc.pts[i + 1].x * calc.N = 10 * i * calc.w

\* C14 amended: as above, but vertex i is at (i / N) * w rounded to one
\* decimal place, that is within 0.05 of it; and while the loop runs the
\* vertices pushed so far are those of the iterations done
C14_BuildRounded ==
    /\ calc.fn = "build" /\ calc.closed =>
          /\ ClosedRegion
          /\ \A i \in 0..calc.N :
                /\ 2 * (calc.pts[i + 1].x * calc.N - 10 * i * calc.w) <= calc.N
                /\ 2 * (10 * i * calc.w - calc.pts[i + 1].x * calc.N) <= calc.N
    /\ calc.fn = "build" /\ ~calc.closed => Len(calc.pts) = calc.i

\* build returned the path of DistributionComparer (N = 300, w = 800): its
\* second vertex is at X = 2.7, (1 / 300) * 800 being 2.666...
C14_Witness ==
    /\ calc.fn = "build" /\ calc.closed /\ calc.N = BUILD_N /\ calc.w = BUILD_W
    /\ calc.pts[2].x = 27

(***************************************************************************)
(* The [-10, 10] builders: pathData of InteractivePriorSlider and getPath  *)
(* of PosteriorUpdateVisualization, on binary64 numbers. Their vertices    *)
(* are printed in full, so a vertex holds the numbers themselves           *)
(***************************************************************************)
PATH_MIN_X == -10
PATH_MAX_X == 10
PATH_POINTS == 100
PATH_W == 800
PATH_H == 400

\* pdf(x) of InteractivePriorSlider, for the props mu and sigma
pdf64(x, mu, sigma) ==
    LET coef == F64Div(F64Int(1), F64Mul(F64Max(sigma, F64Floor1), F64SqrtTwoPi))
        exponent == F64Mul(F64MinusHalf,
                           F64Square(F64Div(F64Sub(x, mu), F64Max(sigma, F64Floor1))))
    IN  F64Mul(coef, F64Exp(exponent))

\* the vertex of pathData with step = (maxX - minX) / (points + 1)
PathDataVertexShortStep(mu, sigma, i) ==
    LET step == F64Div(F64Sub(F64Int(PATH_MAX_X), F64Int(PATH_MIN_X)),
                       F64Int(PATH_POINTS + 1))
        x == F64Add(F64Int(PATH_MIN_X), F64Mul(F64Int(i), step))
        y == pdf64(x, mu, sigma)
    IN  [cmd |-> IF i = 0 THEN "M" ELSE "L",
         x |-> F64Mul(F64Div(F64Sub(x, F64Int(PATH_MIN_X)),
                             F64Sub(F64Int(PATH_MAX_X), F64Int(PATH_MIN_X))),
                      F64Int(PATH_W)),
         y |-> F64Sub(F64Int(PATH_H), F64Mul(y, F64Int(PATH_H)))]
\* pathData: the vertex the for loop adds to d at iteration i
PathDataVertex(mu, sigma, i) ==
    LET step == F64Div(F64Sub(F64Int(PATH_MAX_X), F64Int(PATH_MIN_X)),
                       F64Int(PATH_POINTS))
        x == F64Add(F64Int(PATH_MIN_X), F64Mul(F64Int(i), step))
        y == pdf64(x, mu, sigma)
    IN  [cmd |-> IF i = 0 THEN "M" ELSE "L",
         x |-> F64Mul(F64Div(F64Sub(x, F64Int(PATH_MIN_X)),
                             F64Sub(F64Int(PATH_MAX_X), F64Int(PATH_MIN_X))),
                      F64Int(PATH_W)),
         y |-> F64Sub(F64Int(PATH_H), F64Mul(y, F64Int(PATH_H)))]

\* pdf(x) of getPath(mu, sigma) of PosteriorUpdateVisualization
pdfPosteriorUpdate64(x, mu, sigma) ==
    LET coef == F64Div(F64Int(1), F64Mul(F64Max(sigma, F64Floor1), F64SqrtTwoPi))
        exp == F64Mul(F64MinusHalf,
                      F64Square(F64Div(F64Sub(x, mu), F64Max(sigma, F64Floor1))))
    IN  F64Mul(coef, F64Exp(exp))

\* getPath(mu, sigma): the vertex the for loop adds to d at iteration i
GetPathVertex(mu, sigma, i) ==
    LET step == F64Div(F64Sub(F64Int(PATH_MAX_X), F64Int(PATH_MIN_X)),
                       F64Int(PATH_POINTS))
        x == F64Add(F64Int(PATH_MIN_X), F64Mul(F64Int(i), step))
        y == pdfPosteriorUpdate64(x, mu, sigma)
        svgX == F64Mul(F64Div(F64Sub(x, F64Int(PATH_MIN_X)),
                              F64Sub(F64Int(PATH_MAX_X), F64Int(PATH_MIN_X))),
                       F64Int(PATH_W))
        svgY == F64Sub(F64Int(PATH_H), F64Mul(y, F64Int(PATH_H)))
    IN  [cmd |-> IF i = 0 THEN "M" ELSE "L", x |-> svgX, y |-> svgY]

\* L 800 400 L 0 400 Z
PathClosing ==
    <<[cmd |-> "L", x |-> F64Int(PATH_W), y |-> F64Int(PATH_H)],
      [cmd |-> "L", x |-> F64Int(0), y |-> F64Int(PATH_H)],
      [cmd |-> "Z"]>>

(***************************************************************************)
(* The two builders run on their own, one iteration of the loop per step,  *)
(* for means and standard deviations the sliders reach (in tenths)         *)
(***************************************************************************)
PathMeans == {0, 15}
PathSigmas == {10, 2}

InitPath ==
    /\ DataInit /\ AppInit /\ McmcMounted(<<>>) /\ BetaMounted /\ TraceUnmounted
    /\ chain = <<>> /\ gens = <<>> /\ logGrid = <<>>
    /\ \E f \in {"pathData", "getPath"}, m \in PathMeans, s \in PathSigmas :
          /\ f = "getPath" => m = 0 /\ s = 10
          /\ calc = [fn |-> f, mu |-> m, sigma |-> s, i |-> 0, pts |-> <<>>,
                     closed |-> FALSE]

\* pathData: one iteration of the for loop
PathDataIterate ==
    /\ calc.fn = "pathData" /\ calc.i <= PATH_POINTS
    /\ calc' = [calc EXCEPT !.i = @ + 1,
                   !.pts = Append(@, PathDataVertex(Tenths(calc.mu), Tenths(calc.sigma),
                                                    calc.i))]
    /\ UNCHANGED outsideCalc

\* getPath: one iteration of the for loop
GetPathIterate ==
    /\ calc.fn = "getPath" /\ calc.i <= PATH_POINTS
    /\ calc' = [calc EXCEPT !.i = @ + 1,
                   !.pts = Append(@, GetPathVertex(Tenths(calc.mu), Tenths(calc.sigma),
                                                   calc.i))]
    /\ UNCHANGED outsideCalc

\* both: the closing of the path and the return
PathReturn ==
    /\ calc.i = PATH_POINTS + 1 /\ ~calc.closed
    /\ calc' = [calc EXCEPT !.closed = TRUE, !.pts = @ \o PathClosing]
    /\ UNCHANGED outsideCalc

NextPath == PathDataIterate \/ GetPathIterate \/ PathReturn
SpecPath == InitPath /\ [][NextPath]_vars

\* vertex i of the path, i from 0
PathVertexAt(i) == calc.pts[i + 1]

\* C15 as stated: for a density centred at 0 the vertices i and N - i of a
\* [-10, 10] builder are mirror images about the surface X of x = 0, which
\* is 400: their X are equidistant from it and their Y are equal
C15_Mirror ==
    calc.closed /\ calc.mu = 0 =>
       \A i \in 0..PATH_POINTS :
          /\ F64Eq(F64Sub(F64Int(PATH_W), PathVertexAt(i).x),
                   PathVertexAt(PATH_POINTS - i).x)
          /\ F64Eq(F64Sub(F64Int(PATH_W), PathVertexAt(PATH_POINTS - i).x),
                   PathVertexAt(i).x)
          /\ F64Eq(PathVertexAt(i).y, PathVertexAt(PATH_POINTS - i).y)

\* a millionth of a surface unit
MirrorTolerance == F64Div(F64Int(1), F64Int(1000000))

\* C15 amended: the vertices i and N - i are mirror images up to the
\* rounding of the arithmetic: the sum of their X is within a millionth of
\* twice the centre, and their Y are within a millionth of each other
C15_MirrorRounded ==
    calc.closed /\ calc.mu = 0 =>
       \A i \in 0..PATH_POINTS :
          /\ F64MagLess(F64Sub(F64Add(PathVertexAt(i).x, PathVertexAt(PATH_POINTS - i).x),
                               F64Int(PATH_W)), MirrorTolerance)
          /\ F64MagLess(F64Sub(PathVertexAt(i).y, PathVertexAt(PATH_POINTS - i).y),
                        MirrorTolerance)

\* pathData returned the path for mean 0 and standard deviation 1, and its
\* vertices 3 and 97 are not at the exact mirror positions 24 and 776
C15_Witness ==
    /\ calc.closed /\ calc.fn = "pathData" /\ calc.mu = 0 /\ calc.sigma = 10
    /\ ~F64Eq(PathVertexAt(3).x, F64Int(24))
    /\ ~F64Eq(PathVertexAt(97).x, F64Int(776))
    /\ F64Less(PathVertexAt(50).y, F64Int(250))

(***************************************************************************)
(* The application with all of its parameter sliders: navigation, the      *)
(* three sliders of the sampler and the four of the Normal-Normal model    *)
(***************************************************************************)
NextParams ==
    \/ Navigate
    \/ SetNumSamples \/ SetStepSize \/ SetSeed
    \/ SetPriorMu \/ SetPriorSigma \/ SetDataMu \/ SetDataSigma
SpecParams == Init /\ [][NextParams]_vars

\* the parameters of the sampler hold the values of useState(300),
\* useState(0.15) and useState(42)
SamplerDefaults ==
    /\ numSamples = DEFAULT_NUM_SAMPLES /\ stepSize = DEFAULT_STEP_SIZE
    /\ seed = DEFAULT_SEED

\* the parameters of the Normal-Normal model hold the values of useState(0),
\* useState(1), useState(2.5) and useState(0.8)
NormalDefaults ==
    /\ priorMu = 0 /\ priorSigma = 10 /\ dataMu = 25 /\ dataSigma = 8

\* C16 as stated: every parameter starts at its default value and is
\* discarded on navigation: after a change of chapter the prior mean and sd,
\* the data mean and sd, the sample count, the step size and the seed all
\* hold their default values again
C16_Lifecycle ==
    /\ SamplerDefaults /\ NormalDefaults
    /\ [][activeChapter' # activeChapter => SamplerDefaults' /\ NormalDefaults']_vars

\* C16 amended: every parameter starts at its default value; a change of
\* chapter puts the sample count, the step size and the seed back to their
\* default values and leaves the prior mean and sd and the data mean and sd
\* as they were
C16_LifecycleKept ==
    /\ SamplerDefaults /\ NormalDefaults
    /\ [][activeChapter' # activeChapter =>
             /\ SamplerDefaults'
             /\ UNCHANGED <<priorMu, priorSigma, dataMu, dataSigma>>]_vars

\* the first chapter is on screen again after the prior mean was moved on
\* the second chapter and the data mean on the third
C16_Witness ==
    /\ activeChapter = "mindset" /\ priorMu = -50 /\ dataMu = 50
    /\ SamplerDefaults

(***************************************************************************)
(* The steps of the Metropolis-Hastings loop, one by one                   *)
(***************************************************************************)
\* the steps the loop has made so far, as runSampler saw them
MhLog == chain.st.log

\* the steps whose proposal had sigma <= 0
Infeasible == {k \in 1..Len(MhLog) : MhLog[k].sigProp <= 0}

\* C17: a step whose proposed sigma is <= 0 leaves the chain where it was in
\* mu and in sigma, reports not accepted, does not add to the accepted
\* counter and makes no evaluation of the log-posterior
C17_RejectInfeasible ==
    /\ \A k \in Infeasible :
          /\ MhLog[k].mu = MhLog[k].muCurr /\ MhLog[k].sig = MhLog[k].sigCurr
          /\ ~MhLog[k].acc
          /\ MhLog[k].counted = 0
          /\ MhLog[k].evals = 0 /\ MhLog[k].logA = <<>>
    /\ chain.st.accepted = Cardinality({k \in 1..Len(MhLog) : MhLog[k].acc})

\* a proposal with sigma <= 0 and another mu was made after an accepted step,
\* and the loop went on after it
C17_Witness ==
    \E k \in Infeasible :
        /\ MhLog[k].muProp # MhLog[k].muCurr
        /\ k < Len(MhLog)
        /\ \E j \in 1..(k - 1) : MhLog[j].acc

\* the steps whose proposal had sigma > 0
Feasible == {k \in 1..Len(MhLog) : MhLog[k].sigProp > 0}

\* logPosterior(proposal) - logPosterior(current) of step k
LogRatio(k) ==
    FSub(TARGET_LOG_PROB(MhLog[k].muProp, MhLog[k].sigProp),
         TARGET_LOG_PROB(MhLog[k].muCurr, MhLog[k].sigCurr))

\* C18: a step whose proposed sigma is > 0 takes a third, fresh draw u and
\* compares log(u + 1e-12) with logA = logPosterior(proposal) -
\* logPosterior(current): when the logarithm is below logA the next state is
\* the proposal in both coordinates and the step is flagged accepted,
\* otherwise the next state is the current one and the step is flagged
\* rejected; over all steps the flag is set exactly when the state was
\* replaced by the proposal
C18_AcceptanceRule ==
    /\ \A k \in Feasible :
          /\ MhLog[k].draws = 3 /\ Len(MhLog[k].us) = 3
          /\ MhLog[k].us[3] \notin {MhLog[k].us[1], MhLog[k].us[2]}
          /\ MhLog[k].logU = <<LogUnitEps(MhLog[k].us[3])>>
          /\ MhLog[k].logA = <<LogRatio(k)>>
          /\ IF FLt(MhLog[k].logU[1], MhLog[k].logA[1])
             THEN /\ MhLog[k].acc
                  /\ MhLog[k].mu = MhLog[k].muProp /\ MhLog[k].sig = MhLog[k].sigProp
             ELSE /\ ~MhLog[k].acc
                  /\ MhLog[k].mu = MhLog[k].muCurr /\ MhLog[k].sig = MhLog[k].sigCurr
    /\ \A k \in 1..Len(MhLog) :
          MhLog[k].acc <=> /\ MhLog[k].mu = MhLog[k].muProp
                           /\ MhLog[k].sig = MhLog[k].sigProp

\* a proposal with sigma > 0 and a finite logA was rejected, and a later one
\* was accepted though it went downhill (logA < 0)
C18_Witness ==
    \E j, k \in Feasible :
        /\ j < k
        /\ ~MhLog[j].acc /\ isFinite(MhLog[j].logA[1])
        /\ MhLog[k].acc /\ FLt(MhLog[k].logA[1], 0)

\* u + 1e-12 in binary64 for u = (s >>> 0) / 4294967296: the argument of
\* Math.log in mhStep and in genData
UnitEps64(s) ==
    F64Add(F64Div(F64Add(F64Mul(F64Int(Hi16(s)), F64Int(65536)), F64Int(Lo16(s))),
                  F64Mul(F64Int(65536), F64Int(65536))),
           F64Div(F64Int(1), F64Mul(F64Int(10^6), F64Int(10^6))))

\* the generator states whose draw the Box-Muller loop of the dataset took
\* the logarithm of
DataLogDraws ==
    GenNormals([i |-> 0, s |-> SEED_DATA, normals |-> <<>>, logOf |-> <<>>], N_OBS).logOf

\* the draw read from generator state s gives Math.log a strictly positive
\* argument and a finite logarithm
PositiveLogArgument(s) ==
    /\ F64Less(F64Zero(FALSE), UnitEps64(s))
    /\ isFinite(LogUnitEps(s))

\* every draw the Box-Muller loop of the dataset took the logarithm of gave
\* Math.log a strictly positive argument
BoxMullerArgumentsPositive ==
    /\ Len(DataLogDraws) = (N_OBS + 1) \div 2
    /\ \A j \in 1..Len(DataLogDraws) : PositiveLogArgument(DataLogDraws[j])

\* C19: a step whose log-ratio logA is -Infinity or NaN is rejected and
\* leaves the state unchanged; every logarithm of a uniform draw, in the
\* acceptance test and in the Box-Muller loop, is taken of u + 1e-12 > 0;
\* and the chain state is a pair of finite numbers after every step
C19_NonFinite ==
    /\ \A k \in Feasible :
          /\ (MhLog[k].logA[1] = NegInf \/ IsNaN(MhLog[k].logA[1])) =>
                /\ ~MhLog[k].acc
                /\ MhLog[k].mu = MhLog[k].muCurr /\ MhLog[k].sig = MhLog[k].sigCurr
          /\ PositiveLogArgument(MhLog[k].us[3])
          /\ MhLog[k].logU = <<LogUnitEps(MhLog[k].us[3])>>
    /\ BoxMullerArgumentsPositive
    /\ isFinite(chain.st.mu) /\ isFinite(chain.st.sig)
    /\ \A k \in 1..Len(MhLog) : isFinite(MhLog[k].mu) /\ isFinite(MhLog[k].sig)

\* from a position with a finite log-posterior a proposal with sigma > 0 had
\* a log-posterior of -Infinity, and the loop went on after it
C19_Witness ==
    \E k \in Feasible :
        /\ MhLog[k].logA[1] = NegInf
        /\ isFinite(TARGET_LOG_PROB(MhLog[k].muCurr, MhLog[k].sigCurr))
        /\ k < Len(MhLog)

\* the recorded samples of the run so far
MhSamples == chain.st.newSamples

\* C20: each coordinate of a proposal is the current coordinate plus an
\* offset (2u - 1) * stepSize that lies in [-stepSize, +stepSize), mu from
\* the first draw of the step and sigma from the second; so consecutive
\* positions of the chain, and consecutive recorded samples, differ by at
\* most stepSize in mu and by at most stepSize in sigma
C20_ProposalBound ==
    /\ \A k \in 1..Len(MhLog) :
          /\ Len(MhLog[k].us) >= 2 /\ MhLog[k].us[1] # MhLog[k].us[2]
          /\ MhLog[k].muProp = FAdd(MhLog[k].muCurr, Offset(MhLog[k].us[1], chain.step))
          /\ MhLog[k].sigProp = FAdd(MhLog[k].sigCurr, Offset(MhLog[k].us[2], chain.step))
          /\ MhLog[k].muProp - MhLog[k].muCurr >= -chain.step
          /\ MhLog[k].muProp - MhLog[k].muCurr < chain.step
          /\ MhLog[k].sigProp - MhLog[k].sigCurr >= -chain.step
          /\ MhLog[k].sigProp - MhLog[k].sigCurr < chain.step
          /\ Abs(MhLog[k].mu - MhLog[k].muCurr) <= chain.step
          /\ Abs(MhLog[k].sig - MhLog[k].sigCurr) <= chain.step
          /\ k > 1 => /\ MhLog[k].muCurr = MhLog[k - 1].mu
                      /\ MhLog[k].sigCurr = MhLog[k - 1].sig
    /\ \A k \in 2..Len(MhSamples) :
          /\ Abs(MhSamples[k].x - MhSamples[k - 1].x) <= chain.step
          /\ Abs(MhSamples[k].y - MhSamples[k - 1].y) <= chain.step

\* an accepted step moved mu up by more than half the step size and sigma
\* down by more than half the step size, and both positions were recorded
C20_Witness ==
    \E k \in 2..Len(MhLog) :
        /\ MhLog[k].acc /\ Len(MhSamples) >= k
        /\ 2 * (MhLog[k].mu - MhLog[k].muCurr) > chain.step
        /\ 2 * (MhLog[k].sigCurr - MhLog[k].sig) > chain.step
        /\ MhSamples[k] = Point(MhLog[k].mu, MhLog[k].sig)
        /\ MhSamples[k - 1] = Point(MhLog[k].muCurr, MhLog[k].sigCurr)

(***************************************************************************)
(* MCMCTraceViewer                                                         *)
(***************************************************************************)
TRACE_CAP == 50
MaxTicks == 54
RandomSeeds == {7, 1000}

\* Math.random(): the engine's generator, whose state the program neither
\* sets nor sees; s is its state before the call, the value returned is
\* Unit of the state after it
MathRandom(s) == LcgStep(s)

\* 3.2 + (Math.random() - 0.5) * 0.4
FauxSample1(r) == FAdd(32000, FMul(FSub(r, 5000), 4000))

\* 3.2 + (Math.random() - 0.5) * 0.6 + (prev.length < 20 ? 0.3 : 0)
FauxSample2(prev, r) ==
    FAdd(FAdd(32000, FMul(FSub(r, 5000), 6000)), IF Len(prev) < 20 THEN 3000 ELSE 0)

\* an updater that shifts only once the trace is past 51 points
PushShiftedLate(prev, v) ==
    LET next == Append(prev, v)
    IN  IF Len(next) > TRACE_CAP + 1 THEN Tail(next) ELSE next

\* next = [...prev, v]; if (next.length > 50) next.shift(); return next
PushShifted(prev, v) ==
    LET next == Append(prev, v)
    IN  IF Len(next) > TRACE_CAP THEN Tail(next) ELSE next

\* what no handler of MCMCTraceViewer touches
outsideTrace == <<activeChapter, dataVars, mcmcVars, betaVars, normalVars, chain, gens,
                  logGrid, calc>>

\* the callback of setInterval: the two updaters, applied in the order of
\* the calls that queued them
Tick ==
    /\ activeChapter = "inference"
    /\ trace.interval
    /\ trace.ticks < MaxTicks
    /\ \E s0 \in (IF trace.random = <<>> THEN RandomSeeds ELSE {trace.random[1]}) :
          LET s1 == MathRandom(s0)
              s2 == MathRandom(s1)
          IN  trace' = [trace EXCEPT
                          !.samples1 = PushShifted(@, FauxSample1(Unit(s1))),
                          !.samples2 = PushShifted(@, FauxSample2(@, Unit(s2))),
                          !.ticks = @ + 1,
                          !.random = <<s2>>]
    /\ UNCHANGED outsideTrace

\* the Pause / Resume button: setIsSimulating(!isSimulating), then the
\* effect's cleanup (clearInterval) and the effect itself, which sets a new
\* interval only when isSimulating
TogglePause ==
    /\ activeChapter = "inference"
    /\ trace' = [trace EXCEPT !.isSimulating = ~@, !.interval = ~trace.isSimulating]
    /\ UNCHANGED outsideTrace

(***************************************************************************)
(* The Run Sampler handler taken one statement at a time. The browser      *)
(* hands the next event to a handler only when no handler is executing,    *)
(* and React commits the setState calls of a handler when it returns.      *)
(***************************************************************************)
RunMaxSamples == 50
RunTicks == 1
RunSeeds == {1, DEFAULT_SEED}

\* no handler is executing
Idle == chain = <<>>

\* runSampler from the press of the button to the start of its for loop:
\* setRunning(true) is queued, and seed, stepSize and numSamples are those of
\* the render the callback closes over
RunPress ==
    /\ activeChapter = "inference"
    /\ ~running
    /\ Idle
    /\ numSamples <= RunMaxSamples
    /\ chain' = [seed |-> seed, step |-> stepSize, total |-> numSamples + burnIn,
                 running |-> TRUE,
                 st |-> SamplerLocals(0, START_MU, START_SIG, seededRNG(seed))]
    /\ UNCHANGED <<activeChapter, dataVars, mcmcVars, betaVars, normalVars, gens, logGrid,
                   calc, trace>>

\* one iteration of the for loop of runSampler
RunStep ==
    /\ ~Idle
    /\ chain.st.i < chain.total
    /\ chain' = [chain EXCEPT !.st = SamplerIter(chain.step, chain.st)]
    /\ UNCHANGED <<activeChapter, dataVars, mcmcVars, betaVars, normalVars, gens, logGrid,
                   calc, trace>>

\* the end of runSampler: the setState calls after the loop, committed when
\* the handler returns
RunReturn ==
    /\ ~Idle
    /\ chain.st.i >= chain.total
    /\ SetResults(chain.st, chain.total)
    /\ chain' = <<>>
    /\ UNCHANGED <<activeChapter, dataVars, betaVars, normalVars, gens, logGrid, calc, trace,
                   numSamples, stepSize, seed, grid>>

\* the events that wait for the handler to return
RunNavigate == Idle /\ Navigate
RunSetNumSamples == Idle /\ SetNumSamples
RunSetSeed == Idle /\ SetSeed /\ seed' \in RunSeeds
RunTick == Idle /\ activeChapter = "inference" /\ trace.ticks < RunTicks /\ Tick

NextRun ==
    \/ RunPress \/ RunStep \/ RunReturn
    \/ RunNavigate \/ RunSetNumSamples \/ RunSetSeed \/ RunTick

SpecRun == Init /\ [][NextRun]_vars

\* C21: a run is atomic for the user interface. From the press of Run to
\* the return of the handler every step is a step of the loop: no parameter,
\* chapter, trace or result changes in between; the handler makes exactly
\* numSamples + 100 steps with the seed, step size and sample count read at
\* the press and then commits samples, trajectory and acceptance rate
\* together; results appear in no other way; and whenever no handler is
\* executing the running flag is false
C21_AtomicRun ==
    /\ [](Idle => ~running)
    /\ [][(Idle /\ ~Idle') =>
             /\ chain'.st.i = 0 /\ chain'.st.log = <<>>
             /\ chain'.seed = seed /\ chain'.step = stepSize
             /\ chain'.total = numSamples + burnIn
             /\ UNCHANGED <<activeChapter, mcmcVars, betaVars, normalVars, trace>>]_vars
    /\ [][(~Idle /\ ~Idle') =>
             /\ chain'.st.i = chain.st.i + 1 /\ chain'.st.i <= chain.total
             /\ chain'.seed = chain.seed /\ chain'.step = chain.step
             /\ chain'.total = chain.total
             /\ UNCHANGED <<activeChapter, mcmcVars, betaVars, normalVars, trace>>]_vars
    /\ [][(~Idle /\ Idle') =>
             /\ chain.st.i = numSamples + burnIn /\ Len(chain.st.log) = numSamples + burnIn
             /\ chain.seed = seed /\ chain.step = stepSize
             /\ samples' = chain.st.newSamples /\ Len(samples') = numSamples
             /\ path' = chain.st.trajectory
             /\ acceptance' = <<chain.st.accepted, numSamples + burnIn>>
             /\ ~running'
             /\ UNCHANGED <<activeChapter, numSamples, stepSize, seed, grid, betaVars,
                            normalVars, trace>>]_vars
    /\ [][(Idle /\ Idle') =>
             /\ samples' \in {samples, <<>>} /\ path' \in {path, <<>>}
             /\ acceptance' \in {acceptance, <<>>}]_vars

\* the handler has returned from a run made with another seed after a tick
\* of the trace timer: the results are on screen and the button is enabled
C21_Witness ==
    /\ Idle /\ ~running /\ activeChapter = "inference"
    /\ seed = 1 /\ trace.ticks = 1
    /\ Len(samples) = numSamples /\ Len(path) = numSamples + 1
    /\ acceptance # <<>> /\ Len(chainLog) = numSamples + burnIn

(***************************************************************************)
(* The application with every handler that could write a parameter: the    *)
(* seven sliders, Run, the buttons of the updater, the trace timer and its *)
(* button, and navigation                                                  *)
(***************************************************************************)
WriterPresses == 2

\* Run, followed for short runs made with every prior and data parameter
\* off its default, before the trace timer has ticked
WriterRun ==
    /\ numSamples <= RunMaxSamples
    /\ activeChapter = "inference" /\ trace.ticks = 0
    /\ priorMu # 0 /\ priorSigma # 10 /\ dataMu # 25 /\ dataSigma # 8
    /\ RunSampler

\* the buttons of the updater, followed for the first presses
WriterBeta ==
    /\ animKey < WriterPresses
    /\ (AddSuccess \/ AddFailure \/ Reset \/ SelectPreset)

\* the trace timer, followed for the first tick, and the Pause / Resume
\* button after it
WriterTick == activeChapter = "inference" /\ trace.ticks < RunTicks /\ Tick
WriterPause == activeChapter = "inference" /\ trace.ticks >= RunTicks /\ TogglePause

\* navigation, followed from chapters whose updater has not been pressed
WriterNavigate == animKey = 0 /\ Navigate

\* the sliders, followed over two positions each
WriterSliders ==
    \/ (SetPriorMu /\ priorMu' >= 0) \/ SetPriorSigma
    \/ (SetDataMu /\ dataMu' >= 25) \/ SetDataSigma
    \/ (SetNumSamples /\ numSamples' <= RunMaxSamples)
    \/ (SetStepSize /\ seed = DEFAULT_SEED)
    \/ (SetSeed /\ seed' \in RunSeeds /\ stepSize = DEFAULT_STEP_SIZE)

NextWriters ==
    WriterNavigate \/ WriterSliders \/ WriterRun \/ WriterBeta \/ WriterTick \/ WriterPause

SpecWriters == Init /\ [][NextWriters]_vars

\* a step with the marks of the slider of one parameter of App: its chapter
\* is on screen and stays, and nothing of the sampler, the updater or the
\* trace changes
NormalSliderStep(chapter) ==
    /\ activeChapter = chapter
    /\ UNCHANGED <<activeChapter, mcmcVars, betaVars, trace>>

\* a step with the marks of a slider of the sampler: its chapter is on
\* screen and stays, the results are cleared, and nothing of App, the
\* updater or the trace changes
SamplerSliderStep ==
    /\ activeChapter = "inference"
    /\ samples' = <<>> /\ path' = <<>> /\ acceptance' = <<>>
    /\ UNCHANGED <<activeChapter, normalVars, betaVars, trace>>

\* a step with the marks of a navigation that mounts the sampler anew
RemountStep ==
    /\ activeChapter' # activeChapter
    /\ SamplerDefaults'
    /\ UNCHANGED normalVars

\* C22 as stated: a parameter changes only in a step of its own slider,
\* which changes no other parameter; a step that is a Run, a press in the
\* updater, a tick of the trace timer or a navigation changes none
C22_SingleWriter ==
    [][/\ priorMu' # priorMu =>
             NormalSliderStep("model_building") /\ UNCHANGED <<priorSigma, dataMu, dataSigma>>
       /\ priorSigma' # priorSigma =>
             NormalSliderStep("model_building") /\ UNCHANGED <<priorMu, dataMu, dataSigma>>
       /\ dataMu' # dataMu =>
             NormalSliderStep("inference") /\ UNCHANGED <<priorMu, priorSigma, dataSigma>>
       /\ dataSigma' # dataSigma =>
             NormalSliderStep("inference") /\ UNCHANGED <<priorMu, priorSigma, dataMu>>
       /\ numSamples' # numSamples => SamplerSliderStep /\ UNCHANGED <<stepSize, seed>>
       /\ stepSize' # stepSize => SamplerSliderStep /\ UNCHANGED <<numSamples, seed>>
       /\ seed' # seed => SamplerSliderStep /\ UNCHANGED <<numSamples, stepSize>>]_vars

\* C22 amended: the prior and data parameters change only in a step of
\* their own slider, which changes no other parameter; the sample count,
\* the step size and the seed change in a step of their own slider, or
\* together, back to their defaults, in a navigation; a Run, a press in the
\* updater and a tick of the trace timer change no parameter
C22_SingleWriterRemount ==
    [][/\ priorMu' # priorMu =>
             NormalSliderStep("model_building") /\ UNCHANGED <<priorSigma, dataMu, dataSigma>>
       /\ priorSigma' # priorSigma =>
             NormalSliderStep("model_building") /\ UNCHANGED <<priorMu, dataMu, dataSigma>>
       /\ dataMu' # dataMu =>
             NormalSliderStep("inference") /\ UNCHANGED <<priorMu, priorSigma, dataSigma>>
       /\ dataSigma' # dataSigma =>
             NormalSliderStep("inference") /\ UNCHANGED <<priorMu, priorSigma, dataMu>>
       /\ numSamples' # numSamples =>
             (SamplerSliderStep /\ UNCHANGED <<stepSize, seed>>) \/ RemountStep
       /\ stepSize' # stepSize =>
             (SamplerSliderStep /\ UNCHANGED <<numSamples, seed>>) \/ RemountStep
       /\ seed' # seed =>
             (SamplerSliderStep /\ UNCHANGED <<numSamples, stepSize>>) \/ RemountStep]_vars

\* with every prior and data parameter and the seed moved off its default,
\* a run was made and the trace timer ticked: all of them are still there
C22_Witness ==
    /\ activeChapter = "inference"
    /\ priorMu = 10 /\ priorSigma = 5 /\ dataMu = 50 /\ dataSigma = 10
    /\ numSamples = 50 /\ seed = 1
    /\ acceptance # <<>> /\ trace.ticks = 1

(***************************************************************************)
(* The vertical extent of the curves                                       *)
(***************************************************************************)
\* C23: every vertex of a curve built by pathData or getPath has a surface
\* Y inside the drawing surface, 0 <= Y <= 400, for the standard deviations
\* the sliders reach
C23_InsideSurface ==
    \A k \in 1..Len(calc.pts) :
        /\ ~F64Less(calc.pts[k].y, F64Int(0))
        /\ ~F64Less(F64Int(PATH_H), calc.pts[k].y)

(***************************************************************************)
(* The cached statistics against the dataset: the bracket of               *)
(* TARGET_LOG_PROB and the log-posterior, computed both ways               *)
(***************************************************************************)
QuadMus == {-30000 + 500 * k : k \in 0..120}
QuadSigmas == {SIG_MIN, START_SIG, SIG_MAX}

\* the sum over the observations of (Math.log(x) - mu) ** 2: st = [i, s]
RECURSIVE SumSqDev(_, _, _, _)
SumSqDev(data, mu, st, n) ==
    IF st.i >= n THEN st
    ELSE IF st.i + 1 = n
         THEN [i |-> n, s |-> FAdd(st.s, FMul(FSub(Log(data[n]), mu),
                                              FSub(Log(data[n]), mu)))]
    ELSE SumSqDev(data, mu, SumSqDev(data, mu, st, (st.i + n) \div 2), n)

DirectQuad(mu) == SumSqDev(DATA, mu, [i |-> 0, s |-> 0], Len(DATA)).s

\* the log-posterior with a given value for the bracket
LogProbWith(quad, mu, sig) ==
    FAdd(FAdd(FSub(FMul(-N_OBS * Scale, Log(sig)),
                   FMul(FDiv(Scale, FMul(2 * Scale, FMul(sig, sig))), quad)),
              FMul(FMul(-(Scale \div 2), mu), mu)),
         FMul(FMul(-(Scale \div 2), sig), sig))

InitQuad ==
    /\ DataInit /\ AppInit /\ McmcMounted(<<>>) /\ BetaMounted /\ TraceUnmounted
    /\ chain = <<>> /\ gens = <<>> /\ logGrid = <<>>
    /\ \E m \in QuadMus, sg \in QuadSigmas :
          calc = [mu |-> m, sig |-> sg, out |-> <<>>]

\* TARGET_LOG_PROB(mu, sig), its bracket, and both from the dataset
CallQuad ==
    /\ calc.out = <<>>
    /\ calc' = [calc EXCEPT !.out =
                   <<[cached |-> QuadTerm(calc.mu),
                      direct |-> DirectQuad(calc.mu),
                      logProb |-> TARGET_LOG_PROB(calc.mu, calc.sig),
                      logProbDirect |-> LogProbWith(DirectQuad(calc.mu), calc.mu, calc.sig)]>>]
    /\ UNCHANGED outsideCalc

SpecQuad == InitQuad /\ [][CallQuad]_vars

\* C24 as stated: the bracket computed from the cache equals the sum over
\* the 80 observations of (log(x) - mu)^2, and the log-posterior computed
\* from the cache equals the one computed from the dataset
C24_Sufficient ==
    calc.out # <<>> =>
       /\ calc.out[1].cached = calc.out[1].direct
       /\ calc.out[1].logProb = calc.out[1].logProbDirect

\* the roundings that separate the two brackets, half a unit of the last
\* place each: one for every square of the two sums and one for every
\* product of the bracket
QuadRoundings == 2 * N_OBS + 4

\* C24 amended: the two brackets are equal up to the rounding of the
\* arithmetic, and so are the two log-posteriors, whose difference is that
\* of the brackets times 1 / (2 * sig^2)
C24_SufficientRounded ==
    calc.out # <<>> =>
       /\ Len(DATA) = N_OBS
       /\ 2 * Abs(calc.out[1].cached - calc.out[1].direct) <= QuadRoundings
       /\ 2 * Abs(calc.out[1].logProb - calc.out[1].logProbDirect)
             <= FMul(FDiv(Scale, FMul(2 * Scale, FMul(calc.sig, calc.sig))),
                     QuadRoundings) + 2

\* at mu = 1.1 the two brackets were computed and differ
C24_Witness ==
    /\ calc.out # <<>> /\ calc.mu = TRUE_MU
    /\ calc.out[1].cached # calc.out[1].direct
    /\ calc.out[1].direct > 0

(***************************************************************************)
(* The trace viewer beside the sampler: navigation, the timer, the Pause / *)
(* Resume button, and short runs of the sampler before and between ticks   *)
(***************************************************************************)
TraceRunTicks == {0, 2}

TraceNavigate ==
    /\ activeChapter = "inference" => trace.ticks \in TraceRunTicks
    /\ Navigate

TraceSetNumSamples ==
    /\ activeChapter = "inference" /\ trace.ticks \in TraceRunTicks
    /\ SetNumSamples /\ numSamples' <= RunMaxSamples

TraceRun ==
    /\ activeChapter = "inference" /\ trace.ticks \in TraceRunTicks
    /\ numSamples <= RunMaxSamples
    /\ RunSampler

NextTrace == TraceNavigate \/ TraceSetNumSamples \/ TraceRun \/ Tick \/ TogglePause

SpecTrace == Init /\ [][NextTrace]_vars

\* the viewer is mounted before and after the step
TraceStays == activeChapter = "inference" /\ activeChapter' = "inference"

\* next is prev with one point appended, the oldest dropped past 50
OnePointAppended(prev, next) ==
    IF Len(prev) < TRACE_CAP
    THEN Len(next) = Len(prev) + 1 /\ SubSeq(next, 1, Len(prev)) = prev
    ELSE Len(next) = TRACE_CAP /\ SubSeq(next, 1, TRACE_CAP - 1) = Tail(prev)

\* the points a tick appends are computed from Math.random() alone
TickPoints(t, t2) ==
    \E s0 \in (IF t.random = <<>> THEN RandomSeeds ELSE {t.random[1]}) :
       /\ t2.samples1[Len(t2.samples1)] = FauxSample1(Unit(MathRandom(s0)))
       /\ t2.samples2[Len(t2.samples2)] =
             FauxSample2(t.samples2, Unit(MathRandom(MathRandom(s0))))

\* C25: while the viewer is mounted its traces change only on a tick of its
\* timer; a tick appends exactly one point to each trace and drops the
\* oldest past 50, so the traces have equal length <= 50; while paused no
\* point is appended; no tick reads or changes the sampler's samples,
\* trajectory, acceptance rate or generator
C25_TimerOnly ==
    /\ [](activeChapter = "inference" =>
            /\ Len(trace.samples1) = Len(trace.samples2)
            /\ Len(trace.samples1) <= TRACE_CAP
            /\ trace.interval = trace.isSimulating)
    /\ [][TraceStays /\ (trace.samples1' # trace.samples1 \/ trace.samples2' # trace.samples2
                          \/ trace.ticks' # trace.ticks) =>
            /\ trace.isSimulating /\ trace.isSimulating'
            /\ trace.ticks' = trace.ticks + 1
            /\ OnePointAppended(trace.samples1, trace.samples1')
            /\ OnePointAppended(trace.samples2, trace.samples2')
            /\ TickPoints(trace, trace')
            /\ UNCHANGED <<mcmcVars, chain, gens, dataVars, logGrid>>]_vars
    /\ [][TraceStays /\ ~trace.isSimulating =>
            /\ trace.samples1' = trace.samples1
            /\ trace.samples2' = trace.samples2]_vars

\* the sampler shows results, the timer has ticked past the cap of 50 and
\* the viewer is paused
C25_Witness ==
    /\ activeChapter = "inference"
    /\ samples # <<>> /\ acceptance # <<>>
    /\ trace.ticks > TRACE_CAP + 1
    /\ Len(trace.samples1) = TRACE_CAP /\ Len(trace.samples2) = TRACE_CAP
    /\ ~trace.isSimulating

(***************************************************************************)
(* The results on screen and the parameters on the sliders                 *)
(***************************************************************************)
\* the three result cells are cleared
ResultsEmpty == samples = <<>> /\ path = <<>> /\ acceptance = <<>>

\* the three result cells hold values
ResultsPopulated == samples # <<>> /\ path # <<>> /\ acceptance # <<>>

\* the results are those of runSampler with the parameters on the sliders
ResultsOfDisplayed ==
    LET out == runSampler(seed, stepSize, numSamples)
    IN  /\ samples = out.newSamples
        /\ path = out.trajectory
        /\ acceptance = AcceptanceRate(out.accepted, numSamples + burnIn)

\* C26: a change of the sample count, the step size or the seed clears
\* samples, trajectory and acceptance in the step that makes it; the three
\* results are all empty or all populated; results on screen are those of a
\* run with the sample count, step size and seed now displayed, and hold
\* exactly numSamples samples
C26_ResultsCurrent ==
    /\ [](ResultsEmpty \/ ResultsPopulated)
    /\ [](ResultsPopulated => Len(samples) = numSamples /\ ResultsOfDisplayed)
    /\ [][(numSamples' # numSamples \/ stepSize' # stepSize \/ seed' # seed)
             => ResultsEmpty']_vars

\* a run of 50 samples made with seed 1 is on screen: both sliders were
\* moved before it
C26_Witness ==
    /\ activeChapter = "inference"
    /\ ResultsPopulated
    /\ numSamples = RunMaxSamples /\ seed = 1 /\ stepSize = DEFAULT_STEP_SIZE
    /\ Len(samples) = numSamples
    /\ Len(chainLog) = numSamples + burnIn

(***************************************************************************)
(* The draws of the chain                                                  *)
(***************************************************************************)
\* the generator state n calls of rng() after s
RECURSIVE LcgIter(_, _)
LcgIter(s, n) == IF n = 0 THEN s ELSE LcgIter(LcgStep(s), n - 1)

\* the generator state step k found: the one the step before left
StateBefore(k) == MhLog[k - 1].us[Len(MhLog[k - 1].us)]

\* C27: every step draws in the same order, first the mu offset, then the
\* sigma offset, then, only when the proposed sigma is > 0, the acceptance
\* uniform: two draws when the proposal is infeasible, three otherwise, each
\* from the state the draw before it left; after T steps of which R were
\* infeasible the generator has advanced exactly 3T - R times from its seed
C27_DrawOrder ==
    /\ \A k \in 1..Len(MhLog) :
          LET e == MhLog[k]
          IN  /\ e.draws = (IF e.sigProp <= 0 THEN 2 ELSE 3)
              /\ Len(e.us) = e.draws
              /\ k > 1 => e.us[1] = LcgStep(StateBefore(k))
              /\ \A d \in 2..e.draws : e.us[d] = LcgStep(e.us[d - 1])
              /\ e.muProp = FAdd(e.muCurr, Offset(e.us[1], chain.step))
              /\ e.sigProp = FAdd(e.sigCurr, Offset(e.us[2], chain.step))
              /\ e.draws = 3 => e.logU = <<LogUnitEps(e.us[3])>>
    /\ Len(MhLog) > 0 => chain.st.s = MhLog[Len(MhLog)].us[MhLog[Len(MhLog)].draws]
    /\ \E sd \in MhSeeds :
          chain.st.s = LcgIter(seededRNG(sd), 3 * Len(MhLog) - Cardinality(Infeasible))

\* the steps followed were made, some with an infeasible proposal, some
\* without, a feasible one right after an infeasible one
C27_Witness ==
    /\ Len(MhLog) = MaxMhSteps
    /\ Cardinality(Infeasible) >= 2
    /\ Cardinality(Feasible) >= 2
    /\ \E k \in 2..Len(MhLog) : MhLog[k - 1].draws = 2 /\ MhLog[k].draws = 3

(***************************************************************************)
(* The history of the updater                                              *)
(***************************************************************************)
\* C28: successes + failures is the number of recorded observations in
\* every state; Reset and every prior button, the selected one included,
\* leave the history empty, the counts at zero and the posterior parameters
\* at the (alpha, beta) of the selected prior
C28_CountsAndReset ==
    /\ [](successes + failures = Len(observations))
    /\ [][(Reset \/ SelectPreset) =>
            /\ observations' = <<>>
            /\ successes' = 0 /\ failures' = 0
            /\ postA' = PRESETS[priorPreset' + 1].a
            /\ postB' = PRESETS[priorPreset' + 1].b]_vars
    /\ [][Reset => priorPreset' = priorPreset]_vars

\* the history is empty after four presses, on a prior other than the first:
\* the last press was Reset or a prior button
C28_Witness ==
    /\ activeChapter = "mindset"
    /\ priorPreset = 2 /\ animKey = 4
    /\ observations = <<>>
    /\ postA = 6 /\ postB = 4

\* C29: a press of +5 random appends exactly five observations: the
\* observations made before it stay in front in their order, the number of
\* observations and successes + failures grow by five, and each of the five
\* calls has bumped animKey
C29_FiveAppended ==
    [][AddFiveRandom =>
         /\ Len(observations') = Len(observations) + 5
         /\ SubSeq(observations', 1, Len(observations)) = observations
         /\ successes' + failures' = successes + failures + 5
         /\ animKey' = animKey + 5]_vars

\* six observations after six calls of addObs, successes and failures among
\* the last five
C29_Witness ==
    /\ activeChapter = "mindset"
    /\ animKey = 6 /\ Len(observations) = 6
    /\ observations[1] /\ ~observations[2] /\ observations[3]
    /\ successes + failures = 6

(***************************************************************************)
(* The acceptance badge, rendered when acceptance !== null                 *)
(***************************************************************************)
\* the literals 0.20 and 0.5
Literal020 == F64Div(F64Int(20), F64Int(100))
Literal05 == F64Div(F64Int(5), F64Int(10))

\* the number accepted / total of setAcceptance
AcceptanceNumber(a) == F64Div(F64Int(a[1]), F64Int(a[2]))

\* the className of the badge: acceptance > 0.20 && acceptance < 0.5
BadgeClass(a) ==
    IF F64Less(Literal020, AcceptanceNumber(a)) /\ F64Less(AcceptanceNumber(a), Literal05)
    THEN "emerald" ELSE "amber"

\* the text after the percentage
BadgeText(a) ==
    IF F64Less(AcceptanceNumber(a), Literal020) THEN "too low"
    ELSE IF F64Less(Literal05, AcceptanceNumber(a)) THEN "too high"
    ELSE "good"

BadgeSteps == {1000, 2000}
BadgeSeeds == {3, 7}

\* the step size slider at 0.10 and 0.20
BadgeSetStepSize ==
    /\ Idle
    /\ activeChapter = "inference"
    /\ \E v \in BadgeSteps \ {stepSize} : stepSize' = v
    /\ ClearResults
    /\ UNCHANGED <<outsideMcmc, running, numSamples, seed, grid>>

BadgeSetSeed == Idle /\ SetSeed /\ seed' \in BadgeSeeds
BadgeSetNumSamples == Idle /\ SetNumSamples /\ numSamples' <= RunMaxSamples
BadgeNavigate == Idle /\ samples = <<>> /\ Navigate

NextBadge ==
    \/ RunPress \/ RunStep \/ RunReturn
    \/ BadgeNavigate \/ BadgeSetNumSamples \/ BadgeSetStepSize \/ BadgeSetSeed

SpecBadge == Init /\ [][NextBadge]_vars

\* C30: whenever the badge is shown it is styled green exactly when its text
\* reads good, and styled as a warning exactly when its text reads too low
\* or too high
C30_BadgeConsistent ==
    (activeChapter = "inference" /\ acceptance # <<>>) =>
       (BadgeClass(acceptance) = "emerald" <=> BadgeText(acceptance) = "good")

====
